---------------------------- MODULE Spec2Model ----------------------------
(***************************************************************************)
(* A model of ovos_color_parser (src/ovos_color_parser/__init__.py): the   *)
(* color value types and their conversions, the spectral tables, the       *)
(* Kelvin formula, closest_color, and the description pipeline             *)
(* color_from_description with its per-language caches.                    *)
(*                                                                         *)
(* Python numbers.  A Python float is modelled as an exact rational        *)
(* <<n, d>> (d > 0, lowest terms); IEEE rounding is not modelled.  A       *)
(* number stored in an sRGBAColor channel carries its Python type, since   *)
(* the code stores both ints and floats there: [int |-> BOOLEAN, q |-> Q]. *)
(* Python strings are sequences of one-character strings; None (for a      *)
(* name or a description) is the one-element sequence PyNone.              *)
(***************************************************************************)
EXTENDS Integers, Sequences, FiniteSets, TLC

VARIABLES
    COLOR_DATA,         \* _COLOR_DATA: lang -> loaded colors.json (hex -> name)
    color_automatons,   \* _color_automatons: lang -> Automaton
    object_automatons,  \* _object_automatons: lang -> Automaton
    res,                \* the resource files on disk: base language -> files
    op,                 \* the operation the last call ran
    args,               \* its arguments
    ret,                \* its outcome: [status |-> "ok" | "raise", ...]
    events,             \* how often each file was opened and each matcher built
    threads             \* the threads inside a loader: thread -> its frame

vars ==
    <<COLOR_DATA, color_automatons, object_automatons, res, op, args, ret, events, threads>>

\* One({body : x \in {e}}) is LET x == e IN body with e evaluated once, before
\* body, as Python evaluates an assignment
One(S) == CHOOSE y \in S : TRUE

----------------------------------------------------------------------------
(* Rationals                                                               *)

Abs(n) == IF n < 0 THEN -n ELSE n

RECURSIVE GCD(_, _)
GCD(a, b) == IF b = 0 THEN a ELSE One({GCD(b, m) : m \in {a % b}})

QNorm(n, d) ==
    LET g == GCD(Abs(n), d) IN IF g = 0 THEN <<0, 1>> ELSE <<n \div g, d \div g>>

Q(n, d) == IF d < 0 THEN QNorm(-n, -d) ELSE QNorm(n, d)
QI(n) == <<n, 1>>
\* sums and comparisons go through the least common denominator, which keeps
\* the intermediate products small
QAdd(a, b) ==
    LET g == GCD(a[2], b[2])
    IN  QNorm(a[1] * (b[2] \div g) + b[1] * (a[2] \div g), (a[2] \div g) * b[2])
QSub(a, b) == QAdd(a, <<-b[1], b[2]>>)
QMul(a, b) ==
    \* cross-reduce first so that intermediate products stay small
    LET x == QNorm(a[1], b[2])
        y == QNorm(b[1], a[2])
    IN  QNorm(x[1] * y[1], x[2] * y[2])
QDiv(a, b) == IF b[1] < 0 THEN QMul(a, <<-b[2], -b[1]>>) ELSE QMul(a, <<b[2], b[1]>>)
QCmp(a, b) ==
    LET g == GCD(a[2], b[2]) IN a[1] * (b[2] \div g) - b[1] * (a[2] \div g)
QLt(a, b) == QCmp(a, b) < 0
QLe(a, b) == QCmp(a, b) <= 0
QEq(a, b) == QCmp(a, b) = 0
QMin(a, b) == IF QLt(b, a) THEN b ELSE a      \* Python min(a, b)
QMax(a, b) == IF QLt(a, b) THEN b ELSE a      \* Python max(a, b)
\* Python int(x): truncation toward zero
QTrunc(a) == IF a[1] >= 0 THEN a[1] \div a[2] ELSE -((-a[1]) \div a[2])
\* Python x % 1.0 for a rational x
QMod1(a) == QNorm(a[1] % a[2], a[2])

\* Python numbers with their type
PyInt(n) == [int |-> TRUE, q |-> <<n, 1>>]
PyFloat(q) == [int |-> FALSE, q |-> q]
NumEq(x, y) == QEq(x.q, y.q)                  \* Python ==: 1 == 1.0

----------------------------------------------------------------------------
(* Strings                                                                 *)

PyNone == <<"<None>">>

LowerCase == <<"a", "b", "c", "d", "e", "f", "g", "h", "i", "j", "k", "l", "m",
               "n", "o", "p", "q", "r", "s", "t", "u", "v", "w", "x", "y", "z">>
UpperCase == <<"A", "B", "C", "D", "E", "F", "G", "H", "I", "J", "K", "L", "M",
               "N", "O", "P", "Q", "R", "S", "T", "U", "V", "W", "X", "Y", "Z">>

IsLower(ch) == \E i \in 1..26 : LowerCase[i] = ch
IsUpper(ch) == \E i \in 1..26 : UpperCase[i] = ch
IsAlpha(ch) == IsLower(ch) \/ IsUpper(ch)
ToLower(ch) == IF IsUpper(ch) THEN LowerCase[CHOOSE i \in 1..26 : UpperCase[i] = ch] ELSE ch
ToUpper(ch) == IF IsLower(ch) THEN UpperCase[CHOOSE i \in 1..26 : LowerCase[i] = ch] ELSE ch

\* str.lower(), str.upper()
Lower(s) == [i \in 1..Len(s) |-> ToLower(s[i])]
Upper(s) == [i \in 1..Len(s) |-> ToUpper(s[i])]
\* str.title(): a letter is upper-cased when no letter precedes it, else lower-cased
Title(s) ==
    [i \in 1..Len(s) |->
        IF i = 1 \/ ~IsAlpha(s[i - 1]) THEN ToUpper(s[i]) ELSE ToLower(s[i])]

\* `sub in s`
Contains(s, sub) ==
    \E i \in 0..(Len(s) - Len(sub)) : SubSeq(s, i + 1, i + Len(sub)) = sub
StartsWith(s, pre) == Len(s) >= Len(pre) /\ SubSeq(s, 1, Len(pre)) = pre

----------------------------------------------------------------------------
(* Outcomes of a call                                                      *)

Ok(v) == [status |-> "ok", value |-> v]
Raise(e) == [status |-> "raise", exc |-> e]
IsOk(x) == x.status = "ok"

----------------------------------------------------------------------------
(* colorsys (the standard library functions the conversions call), on      *)
(* rationals.  Each returns a triple.                                      *)

Max3(a, b, c) == QMax(QMax(a, b), c)
Min3(a, b, c) == QMin(QMin(a, b), c)

\* the hue part shared by rgb_to_hls and rgb_to_hsv
HueOf(r, g, b, maxc, rangec) ==
    LET rc == QDiv(QSub(maxc, r), rangec)
        gc == QDiv(QSub(maxc, g), rangec)
        bc == QDiv(QSub(maxc, b), rangec)
        h  == IF QEq(r, maxc) THEN QSub(bc, gc)
              ELSE IF QEq(g, maxc) THEN QAdd(QI(2), QSub(rc, bc))
              ELSE QAdd(QI(4), QSub(gc, rc))
    IN  QMod1(QDiv(h, QI(6)))

rgb_to_hls(r, g, b) ==
    LET maxc == Max3(r, g, b)
        minc == Min3(r, g, b)
        sumc == QAdd(maxc, minc)
        rangec == QSub(maxc, minc)
        l == QDiv(sumc, QI(2))
    IN  IF QEq(minc, maxc) THEN <<QI(0), l, QI(0)>>
        ELSE LET s == IF QLe(l, <<1, 2>>)
                      THEN QDiv(rangec, sumc)
                      ELSE QDiv(rangec, QSub(QSub(QI(2), maxc), minc))
             IN  <<HueOf(r, g, b, maxc, rangec), l, s>>

rgb_to_hsv(r, g, b) ==
    LET maxc == Max3(r, g, b)
        minc == Min3(r, g, b)
        rangec == QSub(maxc, minc)
    IN  IF QEq(minc, maxc) THEN <<QI(0), QI(0), maxc>>
        ELSE <<HueOf(r, g, b, maxc, rangec), QDiv(rangec, maxc), maxc>>

hls_v(m1, m2, hue0) ==
    LET hue == QMod1(hue0)
    IN  IF QLt(hue, <<1, 6>>) THEN QAdd(m1, QMul(QMul(QSub(m2, m1), hue), QI(6)))
        ELSE IF QLt(hue, <<1, 2>>) THEN m2
        ELSE IF QLt(hue, <<2, 3>>)
             THEN QAdd(m1, QMul(QMul(QSub(m2, m1), QSub(<<2, 3>>, hue)), QI(6)))
        ELSE m1

hls_to_rgb(h, l, s) ==
    IF QEq(s, QI(0)) THEN <<l, l, l>>
    ELSE LET m2 == IF QLe(l, <<1, 2>>) THEN QMul(l, QAdd(QI(1), s))
                   ELSE QSub(QAdd(l, s), QMul(l, s))
             m1 == QSub(QMul(QI(2), l), m2)
         IN  <<hls_v(m1, m2, QAdd(h, <<1, 3>>)), hls_v(m1, m2, h),
               hls_v(m1, m2, QSub(h, <<1, 3>>))>>

hsv_to_rgb(h, s, v) ==
    IF QEq(s, QI(0)) THEN <<v, v, v>>
    ELSE LET h6 == QMul(h, QI(6))
             i == QTrunc(h6)
             f == QSub(h6, QI(i))
             p == QMul(v, QSub(QI(1), s))
             q == QMul(v, QSub(QI(1), QMul(s, f)))
             t == QMul(v, QSub(QI(1), QMul(s, QSub(QI(1), f))))
             k == i % 6
         IN  CASE k = 0 -> <<v, t, p>>
               [] k = 1 -> <<q, v, p>>
               [] k = 2 -> <<p, v, t>>
               [] k = 3 -> <<p, q, v>>
               [] k = 4 -> <<t, p, v>>
               [] k = 5 -> <<v, p, q>>

----------------------------------------------------------------------------
(* The color value types                                                   *)

\* sRGBAColor.__post_init__: True when construction does not raise
RGBRangeOk(x) == QLe(QI(0), x.q) /\ QLe(x.q, QI(255))
sRGBAValid(r, g, b) == RGBRangeOk(r) /\ RGBRangeOk(g) /\ RGBRangeOk(b)

\* HSVColor.__post_init__ / HLSColor.__post_init__
HueValidHalfOpen(h) == 0 <= h /\ h < 360        \* the check with < for <=
HueValid(h) == 0 <= h /\ h <= 360
UnitOk(x) == QLe(QI(0), x) /\ QLe(x, QI(1))
HSVValid(h, s, v) == HueValid(h) /\ UnitOk(s) /\ UnitOk(v)
HLSValid(h, l, s) == HueValid(h) /\ UnitOk(s) /\ UnitOk(l)

\* the dataclass constructors: the new object, or ValueError
sRGBAColor(r, g, b, a, name, description) ==
    IF sRGBAValid(r, g, b)
    THEN Ok([r |-> r, g |-> g, b |-> b, a |-> a,
             name |-> name, description |-> description])
    ELSE Raise("ValueError")

HSVColor(h, s, v, name, description) ==
    IF HSVValid(h, s, v)
    THEN Ok([h |-> h, s |-> s, v |-> v, name |-> name, description |-> description])
    ELSE Raise("ValueError")

HLSColor(h, l, s, name, description) ==
    IF HLSValid(h, l, s)
    THEN Ok([h |-> h, l |-> l, s |-> s, name |-> name, description |-> description])
    ELSE Raise("ValueError")

DefaultAlpha == PyInt(255)

\* an sRGBAColor of integer channels, as a literal
RGB(r, g, b) == [r |-> PyInt(r), g |-> PyInt(g), b |-> PyInt(b), a |-> DefaultAlpha,
                 name |-> PyNone, description |-> PyNone]

\* dataclass __eq__ of two sRGBAColor: field by field, numbers by value
RGBEq(x, y) ==
    /\ NumEq(x.r, y.r) /\ NumEq(x.g, y.g) /\ NumEq(x.b, y.b) /\ NumEq(x.a, y.a)
    /\ x.name = y.name /\ x.description = y.description

\* sRGBAColor.as_hls
RgbAsHls(c) ==
    One({ HLSColor(QTrunc(QMul(t[1], QI(360))), t[2], QMin(QI(1), t[3]),
                   c.name, c.description)
          : t \in {rgb_to_hls(QDiv(c.r.q, QI(255)), QDiv(c.g.q, QI(255)),
                              QDiv(c.b.q, QI(255)))} })

\* sRGBAColor.as_hsv
RgbAsHsv(c) ==
    One({ HSVColor(QTrunc(QMul(t[1], QI(360))), t[2], t[3], c.name, c.description)
          : t \in {rgb_to_hsv(QDiv(c.r.q, QI(255)), QDiv(c.g.q, QI(255)),
                              QDiv(c.b.q, QI(255)))} })

\* HSVColor.as_rgb
HsvAsRgb(c) ==
    One({ sRGBAColor(PyInt(QTrunc(QMul(t[1], QI(255)))),
                     PyInt(QTrunc(QMul(t[2], QI(255)))),
                     PyInt(QTrunc(QMul(t[3], QI(255)))),
                     DefaultAlpha, c.name, c.description)
          : t \in {hsv_to_rgb(Q(c.h, 360), c.s, c.v)} })

\* HLSColor.as_rgb
HlsAsRgb(c) ==
    One({ sRGBAColor(PyInt(QTrunc(QMul(t[1], QI(255)))),
                     PyInt(QTrunc(QMul(t[2], QI(255)))),
                     PyInt(QTrunc(QMul(t[3], QI(255)))),
                     DefaultAlpha, c.name, c.description)
          : t \in {hls_to_rgb(Q(c.h, 360), c.l, c.s)} })

----------------------------------------------------------------------------
(* Hex strings                                                             *)

HexDigits == <<"0", "1", "2", "3", "4", "5", "6", "7", "8", "9",
               "a", "b", "c", "d", "e", "f">>

\* format(n, "02x") for an int 0 <= n <= 255
Format02xSwapped(n) == <<HexDigits[(n % 16) + 1], HexDigits[(n \div 16) + 1]>>
Format02x(n) == <<HexDigits[(n \div 16) + 1], HexDigits[(n % 16) + 1]>>

\* sRGBAColor.hex_str; the format code x raises ValueError on a float
RgbHexStr(c) ==
    IF c.r.int /\ c.g.int /\ c.b.int
    THEN Ok(Upper(<<"#">> \o Format02x(c.r.q[1]) \o Format02x(c.g.q[1])
                          \o Format02x(c.b.q[1])))
    ELSE Raise("ValueError")

IsHexDigit(ch) == \E i \in 1..16 : HexDigits[i] = ToLower(ch)
HexVal(ch) == (CHOOSE i \in 1..16 : HexDigits[i] = ToLower(ch)) - 1

\* s[a:b] with Python's clamping (0 <= a <= b)
Slice(s, a, b) == SubSeq(s, a + 1, IF b < Len(s) THEN b ELSE Len(s))

\* int(s, 16): -1 stands for ValueError (no digits, or a character that is no digit)
RECURSIVE HexInt(_)
HexInt(s) ==
    IF Len(s) = 0 THEN -1
    ELSE IF ~IsHexDigit(s[Len(s)]) THEN -1
    ELSE IF Len(s) = 1 THEN HexVal(s[1])
    ELSE LET hi == HexInt(SubSeq(s, 1, Len(s) - 1))
         IN  IF hi < 0 THEN -1 ELSE 16 * hi + HexVal(s[Len(s)])

\* sRGBAColor.from_hex_str
RgbFromHexStr(hex_str, name, description) ==
    LET h == IF StartsWith(hex_str, <<"#">>) THEN Tail(hex_str) ELSE hex_str
        r == HexInt(Slice(h, 0, 2))
        g == HexInt(Slice(h, 2, 4))
        b == HexInt(Slice(h, 4, 6))
    IN  IF r < 0 \/ g < 0 \/ b < 0 THEN Raise("ValueError")
        ELSE sRGBAColor(PyInt(r), PyInt(g), PyInt(b), DefaultAlpha, name, description)

\* HLSColor.from_hex_str
HlsFromHexStr(hex_str, name, description) ==
    One({ IF IsOk(c) THEN RgbAsHls(c.value) ELSE c
          : c \in {RgbFromHexStr(hex_str, name, description)} })

\* HSVColor.hex_str / HLSColor.hex_str
HsvHexStr(c) == One({IF IsOk(x) THEN RgbHexStr(x.value) ELSE x : x \in {HsvAsRgb(c)}})
HlsHexStr(c) == One({IF IsOk(x) THEN RgbHexStr(x.value) ELSE x : x \in {HlsAsRgb(c)}})

----------------------------------------------------------------------------
(* Spectral colors                                                         *)

Term(name, wmin, wmax, hex, hmin, hmax) ==
    [name |-> name, wavelen_nm_min |-> wmin, wavelen_nm_max |-> wmax,
     hex_approximation |-> hex,
     hue_approximation |-> [min_hue_approximation |-> hmin,
                            max_hue_approximation |-> hmax]]

ISCCNBSSpectralColorTerms ==
    << Term(<<"V", "i", "o", "l", "e", "t">>,
            380, 430, <<"#", "7", "F", "0", "0", "F", "F">>, 249, 250),
       Term(<<"B", "l", "u", "e">>,
            440, 480, <<"#", "3", "F", "0", "0", "F", "F">>, 226, 247),
       Term(<<"B", "l", "u", "e", "-", "G", "r", "e", "e", "n">>,
            490, 490, <<"#", "0", "0", "F", "F", "F", "F">>, 190, 190),
       Term(<<"G", "r", "e", "e", "n">>,
            500, 540, <<"#", "0", "0", "F", "F", "0", "0">>, 113, 143),
       Term(<<"Y", "e", "l", "l", "o", "w", "-", "G", "r", "e", "e", "n">>,
            550, 570, <<"#", "8", "8", "F", "F", "0", "0">>,  62, 104),
       Term(<<"Y", "e", "l", "l", "o", "w">>,
            580, 580, <<"#", "F", "F", "F", "F", "0", "0">>,  28,  28),
       Term(<<"O", "r", "a", "n", "g", "e">>,
            590, 600, <<"#", "F", "F", "8", "8", "0", "0">>,   7,  14),
       Term(<<"R", "e", "d">>,
            610, 730, <<"#", "F", "F", "0", "0", "0", "0">>,   0,   5) >>

\* HueRange.__post_init__
HueRangeValid(lo, hi) == 0 <= lo /\ lo <= 360 /\ 0 <= hi /\ hi <= 360

\* the index of the first entry of the palette whose hue range contains hue, or 0
FirstHueEntryOpen(hue, palette) ==          \* the range test with < for <=
    LET hit == {i \in 1..Len(palette) :
                   /\ palette[i].hue_approximation.min_hue_approximation < hue
                   /\ hue < palette[i].hue_approximation.max_hue_approximation}
    IN  IF hit = {} THEN 0 ELSE CHOOSE i \in hit : \A j \in hit : i <= j
FirstHueEntry(hue, palette) ==
    LET hit == {i \in 1..Len(palette) :
                   /\ palette[i].hue_approximation.min_hue_approximation <= hue
                   /\ hue <= palette[i].hue_approximation.max_hue_approximation}
    IN  IF hit = {} THEN 0 ELSE CHOOSE i \in hit : \A j \in hit : i <= j

\* HueRange._hue_to_wavelength
hue_to_wavelength(hue, palette) ==
    One({ IF i = 0 THEN Raise("ValueError")
          ELSE LET t == palette[i]
                   hmin == t.hue_approximation.min_hue_approximation
                   hue_span == t.hue_approximation.max_hue_approximation - hmin
               IN  IF hue_span = 0 THEN Ok(t.wavelen_nm_min)
                   ELSE Ok(QTrunc(QAdd(QI(t.wavelen_nm_min),
                                       QMul(Q(hue - hmin, hue_span),
                                            QI(t.wavelen_nm_max - t.wavelen_nm_min)))))
          : i \in {FirstHueEntry(hue, palette)} })

\* the name of the first entry whose wavelength range contains nm, else dflt
NameAt(nm, palette, dflt) ==
    LET hit == {i \in 1..Len(palette) :
                   palette[i].wavelen_nm_min <= nm /\ nm <= palette[i].wavelen_nm_max}
    IN  IF hit = {} THEN dflt ELSE palette[CHOOSE i \in hit : \A j \in hit : i <= j].name

\* HueRange(lo, hi, name, hex).as_spectral_color
HueRangeAsSpectral(lo, hi, name, hex) ==
    One({ IF ~IsOk(w[1]) THEN w[1]
          ELSE IF ~IsOk(w[2]) THEN w[2]
          ELSE Ok([wavelen_nm_min |-> w[1].value, wavelen_nm_max |-> w[2].value,
                   hex_approximation |-> hex,
                   hue_approximation |-> [min_hue_approximation |-> lo,
                                          max_hue_approximation |-> hi],
                   name |-> IF name = PyNone \/ name = <<>>
                            THEN NameAt(QTrunc(Q(w[2].value + w[1].value, 2)),
                                        ISCCNBSSpectralColorTerms, name)
                            ELSE name])
          : w \in {<<hue_to_wavelength(lo, ISCCNBSSpectralColorTerms),
                     hue_to_wavelength(hi, ISCCNBSSpectralColorTerms)>>} })

\* HSVColor.as_spectral_color
HsvAsSpectral(c) ==
    One({ IF IsOk(hex) THEN HueRangeAsSpectral(c.h, c.h, c.name, hex.value) ELSE hex
          : hex \in {HsvHexStr(c)} })

\* HLSColor.as_spectral_color
HlsAsSpectral(c) ==
    One({ IF IsOk(hex) THEN HueRangeAsSpectral(c.h, c.h, c.name, hex.value) ELSE hex
          : hex \in {HlsHexStr(c)} })

\* sRGBAColor.as_spectral_color
RgbAsSpectral(c) ==
    One({ IF IsOk(x) THEN HsvAsSpectral(x.value) ELSE x : x \in {RgbAsHsv(c)} })

----------------------------------------------------------------------------
(* convert_K_to_RGB.  math.log and math.pow are evaluated in fixed point   *)
(* with four decimals (a value x is the integer x * Fix), so a channel the *)
(* formulas compute is known to about 0.1; the coefficients are those of   *)
(* the source rounded to the digits the fixed point keeps.                 *)

Fix == 100 * 100
FMul(a, b) == (a * b) \div Fix

\* math.log(m) * Fix for 1 <= m < 2 (m in fixed point): 2 * atanh((m-1)/(m+1))
LnSeries(m) ==
    LET z  == ((m - Fix) * Fix) \div (m + Fix)
        z2 == FMul(z, z)
        z3 == FMul(z, z2)
        z5 == FMul(z3, z2)
        z7 == FMul(z5, z2)
        z9 == FMul(z7, z2)
    IN  2 * (z + z3 \div 3 + z5 \div 5 + z7 \div 7 + z9 \div 9)

\* math.log(n / d) * Fix for n / d >= 1
RECURSIVE LnFix(_, _)
LnFix(n, d) ==
    IF n >= 2 * d THEN 6931 + LnFix(n, 2 * d)      \* math.log(2) * Fix = 6931
    ELSE LnSeries((n * Fix) \div d)

\* math.exp(y) * Fix for -1 < y <= 0 (y in fixed point)
ExpFix(y) ==
    LET t1 == y
        t2 == FMul(t1, y) \div 2
        t3 == FMul(t2, y) \div 3
        t4 == FMul(t3, y) \div 4
        t5 == FMul(t4, y) \div 5
        t6 == FMul(t5, y) \div 6
        t7 == FMul(t6, y) \div 7
    IN  Fix + t1 + t2 + t3 + t4 + t5 + t6 + t7

\* math.pow(n / d, -e / Fix) * Fix for n / d >= 1
PowNeg(n, d, e) == ExpFix(-((e * LnFix(n, d)) \div Fix))

\* the clamp each channel goes through: the ints 0 and 255 outside [0, 255],
\* the float itself inside
Clamp255(tmp) ==
    IF tmp < 0 THEN PyInt(0)
    ELSE IF tmp > 255 * Fix THEN PyInt(255)
    ELSE PyFloat(Q(tmp, Fix))

\* str(n) for n >= 0
Digits == <<"0", "1", "2", "3", "4", "5", "6", "7", "8", "9">>
RECURSIVE IntStr(_)
IntStr(n) == IF n < 10 THEN <<Digits[n + 1]>> ELSE IntStr(n \div 10) \o <<Digits[(n % 10) + 1]>>

KelvinRed(k) ==
    IF k <= 6600 THEN PyInt(255)
    ELSE Clamp255((32970 * PowNeg(k - 6000, 100, 1332)) \div 100)

KelvinGreen(k) ==
    IF k <= 6600 THEN Clamp255((9947 * LnFix(k, 100)) \div 100 - 1611196)
    ELSE Clamp255((28812 * PowNeg(k - 6000, 100, 755)) \div 100)

KelvinBlue(k) ==
    IF k >= 6600 THEN PyInt(255)
    ELSE IF k <= 1900 THEN PyInt(0)
    ELSE Clamp255((13852 * LnFix(k - 1000, 100)) \div 100 - 3050448)

convert_K_to_RGB(k) ==
    IF k < 1000 \/ k > 40000 THEN Raise("ValueError")
    ELSE sRGBAColor(KelvinRed(k), KelvinGreen(k), KelvinBlue(k), DefaultAlpha,
                    PyNone, IntStr(k) \o <<"K">>)

----------------------------------------------------------------------------
(* color_distance and closest_color.  The colorspacious deltaE oracle is a *)
(* function dist from the candidates' (r, g, b) to a distance from the     *)
(* color being compared, chosen by the caller of the model.                *)

Triple(c) == <<c.r.q, c.g.q, c.b.q>>

\* color_distance(color, c) under the oracle
color_distance(dist, c) == dist[Triple(c)]

\* len(str(n)) for an int n >= 0
RECURSIVE NDigits(_)
NDigits(n) == IF n < 10 THEN 1 ELSE 1 + NDigits(n \div 10)
RECURSIVE Pow10(_)
Pow10(n) == IF n = 0 THEN 1 ELSE 10 * Pow10(n - 1)

\* sRGBAColor.__hash__: the decimal digits of r, g and b run together, read as
\* an int; int() raises ValueError on the "." of a float
HasIntChannels(c) == c.r.int /\ c.g.int /\ c.b.int
Hash(c) ==
    LET r == c.r.q[1]
        g == c.g.q[1]
        b == c.b.q[1]
    IN  (r * Pow10(NDigits(g)) + g) * Pow10(NDigits(b)) + b

\* two keys of a dict are the same key when their hashes and they are equal
SameKey(x, y) == Hash(x) = Hash(y) /\ RGBEq(x, y)

\* the keys of {c: ... for c in color_opts}, in insertion order: a later equal
\* key leaves the first in place
RECURSIVE DictKeys(_)
DictKeys(opts) ==
    IF opts = <<>> THEN <<>>
    ELSE One({ IF \E i \in 1..Len(front) : SameKey(front[i], opts[Len(opts)])
               THEN front ELSE Append(front, opts[Len(opts)])
               : front \in {DictKeys(SubSeq(opts, 1, Len(opts) - 1))} })

\* min(scores, key=...): the first key (in iteration order) of least score
\* (MinKeyLast: the last such key, as a scan with <= would give)
MinKeyLast(keys, dist) ==
    CHOOSE i \in 1..Len(keys) :
        /\ \A j \in 1..Len(keys) : color_distance(dist, keys[i]) <= color_distance(dist, keys[j])
        /\ \A j \in (i + 1)..Len(keys) :
               color_distance(dist, keys[i]) < color_distance(dist, keys[j])
MinKey(keys, dist) ==
    CHOOSE i \in 1..Len(keys) :
        /\ \A j \in 1..Len(keys) : color_distance(dist, keys[i]) <= color_distance(dist, keys[j])
        /\ \A j \in 1..(i - 1) :
               color_distance(dist, keys[i]) < color_distance(dist, keys[j])

\* c if isinstance(c, sRGBAColor) else c.as_rgb
IsRGB(c) == "r" \in DOMAIN c
IsHLS(c) == "l" \in DOMAIN c
AsRgb(c) ==
    IF IsRGB(c) THEN Ok(c)
    ELSE IF IsHLS(c) THEN HlsAsRgb(c)
    ELSE HsvAsRgb(c)

\* closest_color(color, color_opts)
closest_color(color_opts, dist) ==
    One({ IF \E i \in 1..Len(conv) : ~IsOk(conv[i]) THEN Raise("ValueError")
          ELSE IF \E i \in 1..Len(conv) : ~HasIntChannels(conv[i].value)
          THEN Raise("ValueError")                      \* __hash__ of a float channel
          ELSE IF conv = <<>> THEN Raise("ValueError")  \* min() of nothing
          ELSE One({ Ok(keys[MinKey(keys, dist)])
                     : keys \in {DictKeys([i \in 1..Len(conv) |-> conv[i].value])} })
          : conv \in {[i \in 1..Len(color_opts) |-> AsRgb(color_opts[i])]} })

----------------------------------------------------------------------------
(* More of str, and dicts.  A dict is the sequence of its <<key, value>>   *)
(* items in insertion order, as json.load and dict keep them.              *)

\* s.replace(a, b) for characters a, b
Replace(s, a, b) == [i \in 1..Len(s) |-> IF s[i] = a THEN b ELSE s[i]]

\* s.strip(chars)
Strip(s, chars) ==
    LET keep == {i \in 1..Len(s) : s[i] \notin chars}
    IN  IF keep = {} THEN <<>>
        ELSE SubSeq(s, CHOOSE i \in keep : \A j \in keep : i <= j,
                       CHOOSE i \in keep : \A j \in keep : i >= j)

\* s.split("-")[0]
SplitDash0(s) ==
    LET dash == {i \in 1..Len(s) : s[i] = "-"}
    IN  IF dash = {} THEN s
        ELSE SubSeq(s, 1, (CHOOSE i \in dash : \A j \in dash : i <= j) - 1)

HasKey(d, k) == \E i \in 1..Len(d) : d[i][1] = k
\* d[k] for a key that is there
Get(d, k) == d[CHOOSE i \in 1..Len(d) : d[i][1] = k][2]
\* d[k] = v
Put(d, k, v) ==
    IF HasKey(d, k)
    THEN [i \in 1..Len(d) |-> IF d[i][1] = k THEN <<k, v>> ELSE d[i]]
    ELSE Append(d, <<k, v>>)

----------------------------------------------------------------------------
(* The resource files and their loaders.  res stands for the res/          *)
(* directory: res[lang] is a record with a field for each file of that     *)
(* language that exists, holding what json.load returns for it.  The       *)
(* caches _COLOR_DATA, _color_automatons and _object_automatons are only   *)
(* ever looked up by key, and are functions from the keys they hold.       *)

\* cache[k] = v
Store(cache, k, v) == [x \in DOMAIN cache \cup {k} |-> IF x = k THEN v ELSE cache[x]]

IsFile(lang, file) == lang \in DOMAIN res /\ file \in DOMAIN res[lang]

\* lang.lower().split("-")[0]
BaseLang(lang) == SplitDash0(Lower(lang))

\* _load_color_json(lang) with _COLOR_DATA = data_cache: <<data, _COLOR_DATA after>>
load_color_json(data_cache, lang) ==
    LET l == BaseLang(lang)
        data == IF l \in DOMAIN data_cache THEN data_cache[l] ELSE <<>>
    IN  IF data # <<>> THEN <<data, data_cache>>
        ELSE IF IsFile(l, "colors")
             THEN <<res[l].colors, Store(data_cache, l, res[l].colors)>>
             ELSE <<data, data_cache>>

\* _get_color_adjectives(lang): a function from the bucket names of the file
get_color_adjectives(lang) ==
    IF IsFile(BaseLang(lang), "color_descriptors")
    THEN res[BaseLang(lang)].color_descriptors ELSE <<>>

\* _get_object_colors(lang)
get_object_colors(lang) ==
    IF IsFile(BaseLang(lang), "object_colors")
    THEN res[BaseLang(lang)].object_colors ELSE <<>>

\* lookup_name(color, lang) with _COLOR_DATA = data_cache: <<outcome, _COLOR_DATA after>>
lookup_name(data_cache, color, lang) ==
    One({ IF ~IsOk(p[2]) THEN <<p[2], p[1][2]>>
          ELSE IF HasKey(p[1][1], p[2].value)
          THEN <<Ok(Get(p[1][1], p[2].value)), p[1][2]>>
          ELSE <<Raise("ValueError"), p[1][2]>>
          : p \in {<<load_color_json(data_cache, lang), RgbHexStr(color)>>} })

----------------------------------------------------------------------------
(* The keyword matcher.  An ahocorasick.Automaton is its kind and its      *)
(* words, a dict from key to value: a new one is EMPTY, add_word makes it  *)
(* a TRIE, make_automaton turns a TRIE into an AHOCORASICK automaton and   *)
(* leaves an EMPTY one as it is, and iter needs an AHOCORASICK one.        *)

\* _norm(k)
norm(k) ==
    Strip(Replace(Replace(Lower(k), "-", " "), "_", " "),
          {" ", ",", ".", "!", "\n", ":", ";"})

Automaton == [kind |-> "EMPTY", words |-> <<>>]
add_word(A, key, value) ==
    IF key = <<>> THEN A ELSE [kind |-> "TRIE", words |-> Put(A.words, key, value)]
make_automaton(A) == IF A.kind = "TRIE" THEN [A EXCEPT !.kind = "AHOCORASICK"] ELSE A

\* the occurrences of the words of A in text, as <<end, length, value>>
Occurrences(A, text) ==
    UNION {{<<e, Len(A.words[i][1]), A.words[i][2]>> :
               i \in {j \in 1..Len(A.words) :
                         /\ Len(A.words[j][1]) <= e
                         /\ SubSeq(text, e - Len(A.words[j][1]) + 1, e) = A.words[j][1]}} :
           e \in 1..Len(text)}

\* a set of occurrences in the order iter yields them: by the place they end,
\* and of those ending at one place the longest first
RECURSIVE InIterOrder(_)
InIterOrder(S) ==
    IF S = {} THEN <<>>
    ELSE LET first == CHOOSE x \in S :
                          \A y \in S : x[1] < y[1] \/ (x[1] = y[1] /\ x[2] >= y[2])
         IN  <<first[3]>> \o InIterOrder(S \ {first})

\* [value for idx, value in A.iter(text)], or AttributeError
iter(A, text) ==
    IF A.kind # "AHOCORASICK" THEN Raise("AttributeError")
    ELSE Ok(InIterOrder(Occurrences(A, text)))

\* the automaton built from the items of a dict of hex_str to name
RECURSIVE AddWords(_, _)
AddWords(A, items) ==
    IF items = <<>> THEN A
    ELSE AddWords(add_word(A, norm(items[1][2]), items[1][1]), Tail(items))

\* _load_color_automaton(lang) with the two caches as given:
\* <<automaton, _color_automatons after, _COLOR_DATA after>>
load_color_automaton(automatons, data_cache, lang) ==
    IF lang \in DOMAIN automatons THEN <<automatons[lang], automatons, data_cache>>
    ELSE One({ One({ <<A, Store(automatons, lang, A), ld[2]>>
                     : A \in {make_automaton(AddWords(Automaton, ld[1]))} })
               : ld \in {load_color_json(data_cache, lang)} })

\* _load_object_automaton(lang): <<automaton, _object_automatons after>>
load_object_automaton(automatons, lang) ==
    IF lang \in DOMAIN automatons THEN <<automatons[lang], automatons>>
    ELSE One({ <<A, Store(automatons, lang, A)>>
               : A \in {make_automaton(AddWords(Automaton, get_object_colors(lang)))} })

----------------------------------------------------------------------------
(* The spectral palettes and SpectralColor._wavelength_to_hue.  The        *)
(* wavelengths of the palettes run from 0.01 to 100_000_000_000_000, so a   *)
(* wavelength is held as <<m, e>> for m * 10^e and compared as such.       *)

\* the wavelength n, a whole number of nanometres
Nm(n) == <<n, 0>>
Sgn(n) == IF n < 0 THEN -1 ELSE IF n = 0 THEN 0 ELSE 1
\* the position of the leading digit of m * 10^e, m > 0
Magnitude(x) == NDigits(x[1]) + x[2]
\* a < b, a = b, a > b as -1, 0, 1 for a, b > 0
PosCmp(a, b) ==
    IF Magnitude(a) # Magnitude(b) THEN Sgn(Magnitude(a) - Magnitude(b))
    ELSE One({ Sgn(a[1] * Pow10(a[2] - e) - b[1] * Pow10(b[2] - e))
               : e \in {IF a[2] < b[2] THEN a[2] ELSE b[2]} })
NmCmp(a, b) ==
    IF Sgn(a[1]) # Sgn(b[1]) THEN Sgn(Sgn(a[1]) - Sgn(b[1]))
    ELSE IF a[1] = 0 THEN 0
    ELSE IF a[1] > 0 THEN PosCmp(a, b)
    ELSE PosCmp(<<-b[1], b[2]>>, <<-a[1], a[2]>>)
NmLe(a, b) == NmCmp(a, b) <= 0
\* the whole number m * 10^e, e >= 0
NmInt(x) == x[1] * Pow10(x[2])

\* hue_approximation=None
NoHue == [none |-> TRUE]
HasHue(t) == "min_hue_approximation" \in DOMAIN t.hue_approximation
\* a SpectralColor given without hue_approximation, its wavelengths as <<m, e>>
Band(name, wmin, wmax, hex) ==
    [name |-> name, wavelen_nm_min |-> wmin, wavelen_nm_max |-> wmax,
     hex_approximation |-> hex, hue_approximation |-> NoHue]
\* a palette of Terms with its wavelengths as <<m, e>>
InNm(palette) ==
    [i \in 1..Len(palette) |->
        [palette[i] EXCEPT !.wavelen_nm_min = Nm(@), !.wavelen_nm_max = Nm(@)]]

Violet == <<"V", "i", "o", "l", "e", "t">>
Orange == <<"O", "r", "a", "n", "g", "e">>
Yellow == <<"Y", "e", "l", "l", "o", "w">>
Green == <<"G", "r", "e", "e", "n">>
Black == <<"#", "0", "0", "0", "0", "0", "0">>
White == <<"#", "F", "F", "F", "F", "F", "F">>

NewtonSpectralColorTerms ==
    << Term(Violet, 380, 420, <<"#", "7", "F", "0", "0", "F", "F">>, 249, 250),
       Term(<<"I", "n", "d", "i", "g", "o">>,
            430, 440, <<"#", "3", "F", "0", "0", "F", "F">>, 247, 249),
       Term(<<"B", "l", "u", "e">>,
            450, 480, <<"#", "1", "D", "A", "2", "D", "F">>, 226, 245),
       Term(Green, 490, 520, <<"#", "0", "0", "F", "F", "0", "0">>, 122, 190),
       Term(Yellow, 530, 570, <<"#", "F", "F", "F", "F", "0", "0">>, 62, 117),
       Term(Orange, 580, 610, <<"#", "F", "F", "8", "8", "0", "0">>, 5, 28),
       Term(<<"R", "e", "d">>,
            620, 690, <<"#", "F", "F", "0", "0", "0", "0">>, 0, 3) >>

MalacaraSpectralColorTerms ==
    << Term(Violet, 380, 420, <<"#", "7", "F", "0", "0", "F", "F">>, 249, 250),
       Term(<<"B", "l", "u", "e">>,
            430, 490, <<"#", "3", "F", "0", "0", "F", "F">>, 190, 248),
       Term(<<"C", "y", "a", "n">>,
            500, 510, <<"#", "0", "0", "F", "F", "F", "F">>, 126, 143),
       Term(Green, 500, 560, <<"#", "0", "0", "F", "F", "0", "0">>, 93, 122),
       Term(Yellow, 570, 570, <<"#", "F", "F", "F", "F", "0", "0">>, 62, 62),
       Term(Orange, 580, 620, <<"#", "F", "F", "8", "8", "0", "0">>, 3, 28),
       Term(<<"R", "e", "d">>,
            630, 730, <<"#", "F", "F", "0", "0", "0", "0">>, 0, 2) >>

CRCHandbookSpectralColorTerms ==
    << Term(Violet, 380, 440, <<"#", "7", "F", "0", "0", "F", "F">>, 247, 250),
       Term(<<"B", "l", "u", "e">>,
            450, 490, <<"#", "3", "F", "0", "0", "F", "F">>, 190, 245),
       Term(Green, 500, 560, <<"#", "0", "0", "F", "F", "0", "0">>, 93, 143),
       Term(Yellow, 570, 580, <<"#", "F", "F", "F", "F", "0", "0">>, 28, 62),
       Term(Orange, 590, 610, <<"#", "F", "F", "8", "8", "0", "0">>, 5, 14),
       Term(<<"R", "e", "d">>,
            620, 740, <<"#", "F", "F", "0", "0", "0", "0">>, 0, 3) >>

IRSpectralColors ==
    << Band(<<"I", "n", "f", "r", "a", "r", "e", "d">>, Nm(700), <<1, 6>>, Black),
       Band(<<"M", "i", "c", "r", "o", "w", "a", "v", "e", "s">>, <<1, 6>>, <<1, 9>>, Black),
       Band(<<"R", "a", "d", "i", "o", " ", "W", "a", "v", "e", "s">>,
            <<1, 9>>, <<1, 14>>, Black) >>

UVSpectralColors ==
    << Band(<<"U", "l", "t", "r", "a", "v", "i", "o", "l", "e", "t">>, Nm(10), Nm(400), White),
       Band(<<"X", "-", "R", "a", "y", "s">>, <<1, -2>>, Nm(10), White),
       Band(<<"G", "a", "m", "m", "a", " ", "R", "a", "y", "s">>, Nm(0), <<1, -2>>, White) >>

ElectroMagneticSpectrum ==
    IRSpectralColors \o InNm(ISCCNBSSpectralColorTerms) \o UVSpectralColors

\* HueRange.hue
HueRangeHue(hr) == QTrunc(Q(hr.min_hue_approximation + hr.max_hue_approximation, 2))

\* the index of the first entry of the palette whose wavelength range contains
\* wavelen, or 0
FirstWavelenEntry(wavelen, palette) ==
    LET hit == {i \in 1..Len(palette) :
                   /\ NmLe(palette[i].wavelen_nm_min, wavelen)
                   /\ NmLe(wavelen, palette[i].wavelen_nm_max)}
    IN  IF hit = {} THEN 0 ELSE CHOOSE i \in hit : \A j \in hit : i <= j

\* SpectralColor._wavelength_to_hue
wavelength_to_hue(wavelen, palette) ==
    One({ IF i = 0 THEN Raise("ValueError")
          ELSE IF ~HasHue(palette[i]) THEN Raise("AttributeError")
          ELSE LET t == palette[i]
                   hue_range == t.hue_approximation
                   span == NmInt(t.wavelen_nm_max) - NmInt(t.wavelen_nm_min)
               IN  IF span = 0 THEN Ok(HueRangeHue(hue_range))
                   ELSE Ok(QTrunc(QAdd(QI(hue_range.min_hue_approximation),
                                       QMul(Q(NmInt(wavelen) - NmInt(t.wavelen_nm_min), span),
                                            QI(hue_range.max_hue_approximation
                                                 - hue_range.min_hue_approximation)))))
          : i \in {FirstWavelenEntry(wavelen, palette)} })

----------------------------------------------------------------------------
(* average_colors.  math.sin and math.cos of a whole number of degrees are *)
(* read from a table of sin(0) .. sin(90) in ten-thousandths; the hue      *)
(* int(degrees(atan2(sin_sum, cos_sum)) % 360) is found as the degree k    *)
(* with the mean direction in [k, k + 1).  When the mean direction is      *)
(* exactly a whole degree k the floating-point value is k give or take a   *)
(* rounding error, and the code's int() then yields k or k - 1 (or, for    *)
(* k = 0, one of 0, 359 and 360, since -1e-14 % 360 rounds to 360.0): the  *)
(* argument fl says which.  Hues that are all 0 leave no rounding error:   *)
(* sin(0.0) is 0.0 and atan2(0.0, x) is 0.0 for x > 0.                     *)


\* c if isinstance(c, HLSColor) else c.as_hls
AsHls(c) ==
    IF IsHLS(c) THEN Ok(c)
    ELSE IF IsRGB(c) THEN RgbAsHls(c)
    ELSE One({ IF IsOk(x) THEN RgbAsHls(x.value) ELSE x : x \in {HsvAsRgb(c)} })

SinTable ==
    <<
      0, 175, 349, 523, 698, 872, 1045, 1219, 1392, 1564, 1736, 1908, 2079,
      2250, 2419, 2588, 2756, 2924, 3090, 3256, 3420, 3584, 3746, 3907, 4067, 4226,
      4384, 4540, 4695, 4848, 5000, 5150, 5299, 5446, 5592, 5736, 5878, 6018, 6157,
      6293, 6428, 6561, 6691, 6820, 6947, 7071, 7193, 7314, 7431, 7547, 7660, 7771,
      7880, 7986, 8090, 8192, 8290, 8387, 8480, 8572, 8660, 8746, 8829, 8910, 8988,
      9063, 9135, 9205, 9272, 9336, 9397, 9455, 9511, 9563, 9613, 9659, 9703, 9744,
      9781, 9816, 9848, 9877, 9903, 9925, 9945, 9962, 9976, 9986, 9994, 9998, 10000 >>
Sin(d) ==
    LET x == d % 360
    IN  IF x <= 90 THEN SinTable[x + 1]
        ELSE IF x <= 180 THEN SinTable[180 - x + 1]
        ELSE IF x <= 270 THEN -SinTable[x - 180 + 1]
        ELSE -SinTable[360 - x + 1]

RECURSIVE QSum(_)
QSum(s) ==
    One({ IF v = <<>> THEN QI(0) ELSE One({ QAdd(v[1], t) : t \in {QSum(Tail(v))} })
          : v \in {s} })

FloatOutcomes == {"exact", "below", "wrap"}

\* whole numbers in the proportion of the weights ws
RECURSIVE Denominators(_)
Denominators(ws) == IF ws = <<>> THEN 1 ELSE ws[1][2] * Denominators(Tail(ws))
WholeWeights(ws) ==
    One({ [i \in 1..Len(ws) |-> ws[i][1] * (D \div ws[i][2])] : D \in {Denominators(ws)} })

\* sum(math.sin(math.radians(h - k)) * w for h, w in zip(hs, ws)) in ten-thousandths:
\* the sine and cosine sums seen from the direction k
RECURSIVE SinSum(_, _, _, _)
SinSum(hs, ws, k, n) ==
    IF n = 0 THEN 0 ELSE ws[n] * Sin(hs[n] - k) + SinSum(hs, ws, k, n - 1)
CosSum(hs, ws, k, n) == SinSum(hs, ws, k - 90, n)

\* the least k in 0..359 with the mean direction of hues hs, of whole weights
\* ws, in [k, k + 1), or -1 when the sums are both 0
MeanDegree(hs, ws) ==
    LET ks == {k \in 0..359 :
                  /\ SinSum(hs, ws, k, Len(hs)) >= 0
                  /\ SinSum(hs, ws, k + 1, Len(hs)) < 0
                  /\ CosSum(hs, ws, k, Len(hs)) > 0}
    IN  IF ks = {} THEN -1 ELSE CHOOSE k \in ks : \A j \in ks : k <= j

\* int(math.degrees(math.atan2(sin_sum, cos_sum)) % 360) for hues hs weighted ws
circular_mean(hs, ws, fl) ==
    One({ One({ IF k < 0 THEN 0                        \* atan2(0, 0)
                ELSE IF SinSum(hs, w, k, Len(hs)) # 0 \/ fl = "exact" THEN k
                ELSE IF \A i \in 1..Len(hs) : hs[i] = 0 THEN k
                ELSE IF fl = "below" THEN (k - 1) % 360
                ELSE IF k = 0 THEN 360 ELSE k
                : k \in {MeanDegree(hs, w)} })
          : w \in {WholeWeights(ws)} })

\* the description average_colors gives its result; the text is not modelled
WeightedAverage == <<"<Weighted average>">>

\* average_colors(colors, weights) for a non-empty list of weights
average_colors(colors, weights, fl) ==
    One({ IF \E i \in 1..Len(conv) : ~IsOk(conv[i]) THEN Raise("ValueError")
          ELSE One({ IF total_weight[1] = 0 THEN Raise("ZeroDivisionError")
                     ELSE HLSColor(
                            circular_mean([i \in 1..Len(conv) |-> conv[i].value.h],
                                          weights, fl),
                            QDiv(QSum([i \in 1..Len(conv) |->
                                          QMul(conv[i].value.l, weights[i])]),
                                 total_weight),
                            QDiv(QSum([i \in 1..Len(conv) |->
                                          QMul(conv[i].value.s, weights[i])]),
                                 total_weight),
                            PyNone, WeightedAverage)
                     : total_weight \in {QSum(weights)} })
          : conv \in {[i \in 1..Len(colors) |-> AsHls(colors[i])]} })

----------------------------------------------------------------------------
(* _adjust_color_attributes                                                *)

Whitespace == {" ", "\n", "\t"}

SaturationBuckets ==
    <<"very_high_saturation", "high_saturation", "low_saturation", "very_low_saturation">>
BrightnessBuckets ==
    <<"very_high_brightness", "high_brightness", "low_brightness", "very_low_brightness">>
OpacityBuckets ==
    <<"very_high_opacity", "high_opacity", "low_opacity", "very_low_opacity">>
TemperatureBuckets ==
    <<"very_high_temperature", "high_temperature", "low_temperature",
      "very_low_temperature">>

\* any(word.lower() in description for word in words)
AnyWordIn(description, words) ==
    \E i \in 1..Len(words) : Contains(description, Lower(words[i]))

\* the branch an if/elif chain over four buckets takes, from its i-th test on:
\* 0 when adjectives[...] raises KeyError before any test succeeds, the number
\* of the first test that succeeds, 5 when none does
\* the chain taking the last test that succeeds instead of the first
RECURSIVE FirstTierLast(_, _, _, _)
FirstTierLast(description, adjectives, buckets, i) ==
    IF i > Len(buckets) THEN i
    ELSE IF buckets[i] \notin DOMAIN adjectives THEN 0
    ELSE One({ IF later \in 1..Len(buckets) THEN later
               ELSE IF AnyWordIn(description, adjectives[buckets[i]]) THEN i
               ELSE later
               : later \in {FirstTierLast(description, adjectives, buckets, i + 1)} })

RECURSIVE FirstTier(_, _, _, _)
FirstTier(description, adjectives, buckets, i) ==
    IF i > Len(buckets) THEN i
    ELSE IF buckets[i] \notin DOMAIN adjectives THEN 0
    ELSE IF AnyWordIn(description, adjectives[buckets[i]]) THEN i
    ELSE FirstTier(description, adjectives, buckets, i + 1)

\* min(1.0, x + 0.2), min(1.0, x + 0.1), max(0.0, x - 0.1), max(0.0, x - 0.2)
Shifted(x, tier) ==
    CASE tier = 1 -> QMin(QI(1), QAdd(x, Q(1, 5)))
      [] tier = 2 -> QMin(QI(1), QAdd(x, Q(1, 10)))
      [] tier = 3 -> QMax(QI(0), QSub(x, Q(1, 10)))
      [] tier = 4 -> QMax(QI(0), QSub(x, Q(1, 5)))
      [] OTHER -> x

\* the temperature branch on an sRGBAColor: the channels it assigns become floats
Tinted(c, tier) ==
    CASE tier = 1 -> [c EXCEPT !.r = PyFloat(QMin(QI(1), QAdd(c.r.q, Q(1, 10)))),
                               !.g = PyFloat(QMax(QI(0), QSub(c.g.q, Q(1, 20))))]
      [] tier = 2 -> [c EXCEPT !.r = PyFloat(QMin(QI(1), QAdd(c.r.q, Q(1, 20))))]
      [] tier = 3 -> [c EXCEPT !.b = PyFloat(QMin(QI(1), QAdd(c.b.q, Q(1, 20))))]
      [] tier = 4 -> [c EXCEPT !.b = PyFloat(QMin(QI(1), QAdd(c.b.q, Q(1, 10))))]
      [] OTHER -> c

\* the HLSColor after the saturation and brightness chains, d being the
\* lower-cased, stripped description: color.s and color.l are assigned in place,
\* so an HLSColor passed in is left like this also when a later step raises
AdjustedHls(hls, d, adjectives) ==
    [hls EXCEPT !.s = Shifted(@, FirstTier(d, adjectives, SaturationBuckets, 1)),
                !.l = IF FirstTier(d, adjectives, SaturationBuckets, 1) = 0 THEN @
                      ELSE Shifted(@, FirstTier(d, adjectives, BrightnessBuckets, 1))]

\* _adjust_color_attributes(color, description, adjectives)
adjust_color_attributes(color, description, adjectives) ==
    LET hls == AsHls(color)
        d == Strip(Lower(description), Whitespace)
        sat == FirstTier(d, adjectives, SaturationBuckets, 1)
        bri == FirstTier(d, adjectives, BrightnessBuckets, 1)
        opa == FirstTier(d, adjectives, OpacityBuckets, 1)
        tem == FirstTier(d, adjectives, TemperatureBuckets, 1)
    IN  IF ~IsOk(hls) THEN hls
        ELSE IF sat = 0 THEN Raise("KeyError")
        ELSE IF bri = 0 THEN Raise("KeyError")
        ELSE IF opa = 0 THEN Raise("KeyError")
        ELSE IF opa <= 4 THEN Raise("AttributeError")     \* HLSColor has no a
        ELSE One({ IF ~IsOk(rgb) THEN rgb
                   ELSE IF tem = 0 THEN Raise("KeyError")
                   ELSE Ok(Tinted(rgb.value, tem))
                   : rgb \in {HlsAsRgb(AdjustedHls(hls.value, d, adjectives))} })

----------------------------------------------------------------------------
(* color_from_description.  fuzzy_match is the function fuzzy from a name  *)
(* to its weight and colorspacious the function dist of closest_color,     *)
(* both chosen by the caller of the model.                                 *)

\* one of the two loops over automaton.iter(description): the candidates and
\* weights it appends, as Ok(<<candidates, weights>>), or what it raises
RECURSIVE Collect(_, _, _)
Collect(hexes, names, fuzzy) ==
    IF hexes = <<>> THEN Ok(<<<<>>, <<>>>>)
    ELSE IF ~HasKey(names, hexes[1]) THEN Raise("KeyError")
    ELSE One({ IF ~IsOk(c) THEN c
               ELSE One({ IF ~IsOk(rest) THEN rest
                          ELSE Ok(<<<<c.value>> \o rest.value[1],
                                    <<fuzzy[Get(names, hexes[1])]>> \o rest.value[2]>>)
                          : rest \in {Collect(Tail(hexes), names, fuzzy)} })
               : c \in {HlsFromHexStr(hexes[1], Get(names, hexes[1]), PyNone)} })

\* the None that color_from_description returns for an Optional[sRGBAColor]
NoColor == [none |-> TRUE]

\* the end of color_from_description, from the adjusted color adj on
Finish(adj, candidates, description, cast_to_palette, dist) ==
    IF ~cast_to_palette
    THEN Ok([adj EXCEPT !.name = Title(description), !.description = description])
    ELSE One({ IF ~IsOk(c) THEN c ELSE Ok([c.value EXCEPT !.description = description])
               : c \in {closest_color(candidates, dist)} })

\* steps 3 and 4 and the end of color_from_description, for the candidates and
\* weights of steps 1 and 2
Fuse(candidates, weights, description, lang, cast_to_palette, dist, fl) ==
    IF candidates = <<>> THEN Ok(NoColor)
    ELSE One({ IF ~IsOk(avg) THEN avg
               ELSE One({ IF ~IsOk(adj) THEN adj
                          ELSE Finish(adj.value, candidates, description,
                                      cast_to_palette, dist)
                          : adj \in {adjust_color_attributes(
                                        avg.value, description,
                                        get_color_adjectives(lang))} })
               : avg \in {average_colors(candidates, weights, fl)} })

\* steps 1 and 2 of color_from_description on the automaton A and the color
\* dictionary color_dict; step 2 gets the color automaton from the cache, A again
Match(A, color_dict, description, lang, fuzzy) ==
    One({ IF ~IsOk(it) THEN it
          ELSE One({ IF ~IsOk(step1) THEN step1
                     ELSE One({ IF ~IsOk(step2) THEN step2
                                ELSE Ok(<<step1.value[1] \o step2.value[1],
                                          step1.value[2] \o step2.value[2]>>)
                                : step2 \in {Collect(it.value, get_object_colors(lang),
                                                     fuzzy)} })
                     : step1 \in {Collect(it.value, color_dict, fuzzy)} })
          : it \in {iter(A, description)} })

\* color_from_description(description, lang, cast_to_palette=cast_to_palette)
\* with the caches as given: the outcome and the caches after
color_from_description(data_cache, automatons, description, lang, cast_to_palette, fuzzy, dist, fl) ==
    One({ One({ One({ [ret |-> IF ~IsOk(m) THEN m
                               ELSE Fuse(m.value[1], m.value[2], description, lang,
                                         cast_to_palette, dist, fl),
                       COLOR_DATA |-> la[3],
                       color_automatons |-> la[2]]
                      : m \in {Match(la[1], ld[1], description, lang, fuzzy)} })
                : la \in {load_color_automaton(automatons, ld[2], lang)} })
          : ld \in {load_color_json(data_cache, lang)} })

----------------------------------------------------------------------------
(* The color layer as a state machine: each action is one call of a public *)
(* operation on inputs drawn from bounded sets; op, args and ret record    *)
(* the call and its outcome until the caller takes the result (Return),    *)
(* and op is "idle" between calls.                                         *)

MaxOpts == 3          \* longest color_opts list given to closest_color
MaxDist == 2          \* largest distance the oracle answers
MaxKiloKelvin == 41   \* convert_K_to_RGB is tried on 1000, 2000, ... up to this many thousands

ChannelSamples == {0, 1, 2, 3, 15, 16, 20, 127, 128, 240, 254, 255}
\* channel values a caller may pass: whole numbers and floats, as rationals
ChannelInputs == {<<-1, 1>>, <<0, 1>>, <<1, 2>>, <<128, 1>>, <<255, 1>>, <<2551, 10>>, <<256, 1>>}
Num(q) == IF q[2] = 1 THEN PyInt(q[1]) ELSE PyFloat(q)
HueInputs == {-1, 0, 180, 359, 360, 361}
UnitInputs == {<<-1, 10>>, <<0, 1>>, <<1, 2>>, <<1, 1>>, <<11, 10>>}
KelvinInputs ==
    {0, 999, 1000, 1001, 1900, 1901, 6558, 6559, 6599, 6600, 6601, 39999, 40000, 40001}
        \cup {1000 * i : i \in 1..MaxKiloKelvin}

NameInputs == {PyNone, <<"r", "o", "s", "e">>}
AlphaInputs == {255, 128}
Named(c, a, name) == [c EXCEPT !.a = PyInt(a), !.name = name]

\* the candidates closest_color is tried on: two colors whose __hash__ collide
\* (1, 23, 4 and 12, 3, 4), two that differ in the name only, and one more
Opts ==
    { RGB(1, 23, 4), RGB(12, 3, 4), RGB(255, 0, 0),
      Named(RGB(1, 23, 4), 255, <<"r", "o", "s", "e">>) }
OptLists == UNION {[1..n -> Opts] : n \in 0..MaxOpts}
Triples(opts) == {Triple(opts[i]) : i \in 1..Len(opts)}

\* what a caller may hand to from_hex_str for the text hex: the text itself,
\* lower-cased, mixed case, and each without the leading "#"
Mixed(s) == [i \in 1..Len(s) |-> IF i % 2 = 0 THEN ToLower(s[i]) ELSE ToUpper(s[i])]
CaseVariants(hex) ==
    {hex, Lower(hex), Mixed(hex), Tail(hex), Tail(Lower(hex)), Tail(Mixed(hex))}

NoResources == <<>>
NoCache == <<>>
NoEvents == <<>>
NoThreads == <<>>

InitColors ==
    /\ COLOR_DATA = NoCache
    /\ color_automatons = NoCache
    /\ object_automatons = NoCache
    /\ res = NoResources
    /\ op = "idle"
    /\ args = <<>>
    /\ ret = <<>>
    /\ events = NoEvents
    /\ threads = NoThreads

Caches == <<COLOR_DATA, color_automatons, object_automatons, res, events, threads>>

\* sRGBAColor(r, g, b)
New_sRGBAColor ==
    /\ op = "idle"
    /\ \E r \in ChannelInputs, g \in ChannelInputs, b \in ChannelInputs :
        /\ op' = "sRGBAColor"
        /\ args' = [r |-> r, g |-> g, b |-> b]
        /\ ret' = sRGBAColor(Num(r), Num(g), Num(b), DefaultAlpha, PyNone, PyNone)
        /\ UNCHANGED Caches

\* HSVColor(h, s, v)
New_HSVColor ==
    /\ op = "idle"
    /\ \E h \in HueInputs, s \in UnitInputs, v \in UnitInputs :
        /\ op' = "HSVColor"
        /\ args' = [h |-> h, s |-> s, v |-> v]
        /\ ret' = HSVColor(h, s, v, PyNone, PyNone)
        /\ UNCHANGED Caches

\* HLSColor(h, l, s)
New_HLSColor ==
    /\ op = "idle"
    /\ \E h \in HueInputs, l \in UnitInputs, s \in UnitInputs :
        /\ op' = "HLSColor"
        /\ args' = [h |-> h, l |-> l, s |-> s]
        /\ ret' = HLSColor(h, l, s, PyNone, PyNone)
        /\ UNCHANGED Caches

\* sRGBAColor.from_hex_str(text) for text a spelling of c.hex_str
HexRoundTrip ==
    /\ op = "idle"
    /\ \E r \in ChannelSamples, g \in {0, 10, 255}, b \in {9, 171},
       a \in AlphaInputs, name \in NameInputs :
        LET c == Named(RGB(r, g, b), a, name)
            hex == RgbHexStr(c)
        IN  \E text \in CaseVariants(hex.value) :
                /\ op' = "from_hex_str"
                /\ args' = [color |-> c, hex_str |-> hex.value, text |-> text]
                /\ ret' = RgbFromHexStr(text, PyNone, PyNone)
                /\ UNCHANGED Caches

\* c.as_hsv.as_rgb and c.as_hls.as_rgb
RgbRoundTrip ==
    /\ op = "idle"
    /\ \E r \in ChannelSamples, g \in ChannelSamples, b \in ChannelSamples :
        LET c == RGB(r, g, b)
            hsv == RgbAsHsv(c)
            hls == RgbAsHls(c)
        IN  /\ op' = "round_trip"
            /\ args' = [color |-> c]
            /\ ret' = [via_hsv |-> IF IsOk(hsv) THEN HsvAsRgb(hsv.value) ELSE hsv,
                       via_hls |-> IF IsOk(hls) THEN HlsAsRgb(hls.value) ELSE hls]
            /\ UNCHANGED Caches

\* as_spectral_color of a valid HSVColor, HLSColor or sRGBAColor
AsSpectralColor ==
    /\ op = "idle"
    /\ \/ \E h \in 0..360, s \in {<<1, 2>>, <<1, 1>>} :
              LET c == HSVColor(h, s, <<1, 2>>, PyNone, PyNone).value
              IN  /\ op' = "as_spectral_color"
                  /\ args' = [kind |-> "HSVColor", color |-> c, hue |-> h]
                  /\ ret' = HsvAsSpectral(c)
                  /\ UNCHANGED Caches
       \/ \E h \in 0..360 :
              LET c == HLSColor(h, <<1, 2>>, <<1, 2>>, PyNone, PyNone).value
              IN  /\ op' = "as_spectral_color"
                  /\ args' = [kind |-> "HLSColor", color |-> c, hue |-> h]
                  /\ ret' = HlsAsSpectral(c)
                  /\ UNCHANGED Caches
       \/ \E r \in ChannelSamples, g \in ChannelSamples, b \in ChannelSamples :
              LET c == RGB(r, g, b)
              IN  /\ op' = "as_spectral_color"
                  /\ args' = [kind |-> "sRGBAColor", color |-> c, hue |-> RgbAsHsv(c).value.h]
                  /\ ret' = RgbAsSpectral(c)
                  /\ UNCHANGED Caches

\* convert_K_to_RGB(k)
ConvertKToRGB ==
    /\ op = "idle"
    /\ \E k \in KelvinInputs :
        /\ op' = "convert_K_to_RGB"
        /\ args' = [colour_temperature |-> k]
        /\ ret' = convert_K_to_RGB(k)
        /\ UNCHANGED Caches

\* closest_color(color, color_opts), the oracle answering dist
ClosestColor ==
    /\ op = "idle"
    /\ \E opts \in OptLists :
        \E dist \in [Triples(opts) -> 0..MaxDist] :
            /\ op' = "closest_color"
            /\ args' = [color_opts |-> opts, dist |-> dist]
            /\ ret' = closest_color(opts, dist)
            /\ UNCHANGED Caches

\* the hue lists and weight lists average_colors is tried on
HueSamples == {0, 10, 240, 350}
HueLists == UNION {[1..n -> HueSamples] : n \in 1..2}
AverageWeights == {<<1, 2>>, <<1, 1>>}

\* average_colors(colors, weights) on HLSColors of the hues hs
AverageColors ==
    /\ op = "idle"
    /\ \E hs \in HueLists, fl \in FloatOutcomes :
        \E ws \in [1..Len(hs) -> AverageWeights] :
        \E colors \in {[i \in 1..Len(hs) |->
                           HLSColor(hs[i], <<1, 2>>, <<1, 2>>, PyNone, PyNone).value]} :
            /\ op' = "average_colors"
            /\ args' = [colors |-> colors, hues |-> hs, weights |-> ws, fl |-> fl]
            /\ ret' = average_colors(colors, ws, fl)
            /\ UNCHANGED Caches

\* the descriptors _adjust_color_attributes is tried on: one keyword for each
\* tier of each axis, "s1" .. "s4", "b1" .. "b4", "o1" .. "o4", "t1" .. "t4",
\* those of the very-high tiers written in upper case
AxisLetters == <<"s", "b", "o", "t">>
AxisBuckets == <<SaturationBuckets, BrightnessBuckets, OpacityBuckets, TemperatureBuckets>>
TierWord(a, i) == <<AxisLetters[a], Digits[i + 1]>>
AllTiers ==
    [b \in {AxisBuckets[a][i] : a \in 1..4, i \in 1..4} |->
        LET a == CHOOSE a \in 1..4 : \E i \in 1..4 : AxisBuckets[a][i] = b
            i == CHOOSE i \in 1..4 : AxisBuckets[a][i] = b
        IN  IF i = 1 THEN <<Upper(TierWord(a, i))>> ELSE <<TierWord(a, i)>>]

\* the description naming the tiers ts of axis a, in that order
RECURSIVE TierWords(_, _)
TierWords(a, ts) ==
    IF ts = <<>> THEN <<>> ELSE <<" ">> \o TierWord(a, ts[1]) \o TierWords(a, Tail(ts))
TierLists == {<<>>, <<1>>, <<3>>, <<4, 2>>, <<4, 3, 1>>}
OpacityLists == {<<>>, <<1>>, <<3>>}
TemperatureLists == {<<>>, <<1>>, <<2>>, <<3>>, <<4>>, <<4, 1>>}
AdjustUnits == {<<0, 1>>, <<1, 2>>, <<19, 20>>}

\* _adjust_color_attributes(color, description, adjectives) on an HLSColor
AdjustColorAttributes ==
    /\ op = "idle"
    /\ \E h \in {0, 240}, l \in AdjustUnits, s \in AdjustUnits,
          sat \in TierLists, bri \in TierLists, opa \in OpacityLists,
          tem \in TemperatureLists :
        \E color \in {HLSColor(h, l, s, PyNone, PyNone).value},
           description \in {<<"a">> \o TierWords(4, tem) \o TierWords(2, bri)
                                \o TierWords(3, opa) \o TierWords(1, sat) \o <<" ">>} :
            /\ op' = "adjust_color_attributes"
            /\ args' = [color |-> color, description |-> description,
                        adjectives |-> AllTiers,
                        sat |-> sat, bri |-> bri, opa |-> opa, tem |-> tem]
            /\ ret' = [color |-> AdjustedHls(color,
                                             Strip(Lower(description), Whitespace),
                                             AllTiers),
                       result |-> adjust_color_attributes(color, description, AllTiers)]
            /\ UNCHANGED Caches

\* the built-in palettes, by name, wavelengths as <<m, e>>
VisiblePalettes ==
    [n \in {"NewtonSpectralColorTerms", "ISCCNBSSpectralColorTerms",
            "MalacaraSpectralColorTerms", "CRCHandbookSpectralColorTerms"} |->
        CASE n = "NewtonSpectralColorTerms" -> NewtonSpectralColorTerms
          [] n = "ISCCNBSSpectralColorTerms" -> ISCCNBSSpectralColorTerms
          [] n = "MalacaraSpectralColorTerms" -> MalacaraSpectralColorTerms
          [] OTHER -> CRCHandbookSpectralColorTerms]
Palettes ==
    [n \in DOMAIN VisiblePalettes
            \cup {"IRSpectralColors", "UVSpectralColors", "ElectroMagneticSpectrum"} |->
        CASE n = "IRSpectralColors" -> IRSpectralColors
          [] n = "UVSpectralColors" -> UVSpectralColors
          [] n = "ElectroMagneticSpectrum" -> ElectroMagneticSpectrum
          [] OTHER -> InNm(VisiblePalettes[n])]
\* the wavelengths _wavelength_to_hue is tried on: each nanometre around the
\* visible range, and the ends of the invisible bands and one step past them
WavelenInputs ==
    {Nm(w) : w \in 375..745}
        \cup {Nm(-1), Nm(0), <<5, -3>>, <<1, -2>>, Nm(5), Nm(9), Nm(10), Nm(11),
              <<1, 6>>, <<5, 8>>, <<1, 9>>, <<1, 14>>, <<2, 14>>}

\* SpectralColor._wavelength_to_hue(wavelen, palette)
WavelengthToHue ==
    /\ op = "idle"
    /\ \E n \in DOMAIN Palettes, wavelen \in WavelenInputs :
        /\ op' = "wavelength_to_hue"
        /\ args' = [name |-> n, palette |-> Palettes[n], wavelen |-> wavelen]
        /\ ret' = wavelength_to_hue(wavelen, Palettes[n])
        /\ UNCHANGED Caches

\* HueRange._hue_to_wavelength(hue, palette)
HueToWavelength ==
    /\ op = "idle"
    /\ \E n \in DOMAIN VisiblePalettes, hue \in -1..361 :
        /\ op' = "hue_to_wavelength"
        /\ args' = [name |-> n, palette |-> VisiblePalettes[n], hue |-> hue]
        /\ ret' = hue_to_wavelength(hue, VisiblePalettes[n])
        /\ UNCHANGED Caches

\* the caller takes the result
Return ==
    /\ op # "idle"
    /\ op' = "idle"
    /\ args' = <<>>
    /\ ret' = <<>>
    /\ UNCHANGED Caches

NextColors ==
    \/ Return
    \/ New_sRGBAColor
    \/ New_HSVColor
    \/ New_HLSColor
    \/ HexRoundTrip
    \/ RgbRoundTrip
    \/ AsSpectralColor
    \/ ConvertKToRGB
    \/ ClosestColor
    \/ AverageColors
    \/ AdjustColorAttributes
    \/ WavelengthToHue
    \/ HueToWavelength

SpecColors == InitColors /\ [][NextColors]_vars

----------------------------------------------------------------------------
(* The description pipeline as a state machine.  Init picks what the res/  *)
(* directory holds; each action is one call, on a description and a       *)
(* language drawn from small sets, with the answers of fuzzy_match and of  *)
(* colorspacious chosen freely.  _load_object_automaton is called by no    *)
(* operation, so object_automatons stays empty.                            *)

Rose == <<"r", "o", "s", "e">>
Blue == <<"b", "l", "u", "e">>
Cerise == <<"c", "e", "r", "i", "s", "e">>
Ruby == <<"r", "u", "b", "y">>
Flamingo == <<"f", "l", "a", "m", "i", "n", "g", "o">>
Ocean == <<"o", "c", "e", "a", "n">>
Cherry == <<"c", "h", "e", "r", "r", "y">>
Dark == <<"d", "a", "r", "k">>
Faded == <<"f", "a", "d", "e", "d">>
Warm == <<"w", "a", "r", "m">>
Vivid == <<"v", "i", "v", "i", "d">>
RoseHex == <<"#", "F", "F", "0", "0", "7", "F">>
BlueHex == <<"#", "0", "0", "0", "0", "F", "F">>
CeriseHex == <<"#", "E", "0", "1", "1", "5", "F">>
RubyHex == <<"#", "9", "B", "1", "1", "1", "E">>

\* colors.json, object_colors.json and color_descriptors.json of a language
Colors == <<<<RoseHex, Rose>>, <<BlueHex, Blue>>, <<CeriseHex, Cerise>>>>
ObjectsOwnHex == <<<<RubyHex, Ruby>>>>
ObjectsColorHex == <<<<RoseHex, Flamingo>>, <<BlueHex, Ocean>>, <<CeriseHex, Cherry>>>>
Descriptors ==
    [very_high_saturation |-> <<Vivid>>, high_saturation |-> <<>>,
     low_saturation |-> <<>>, very_low_saturation |-> <<>>,
     very_high_brightness |-> <<>>, high_brightness |-> <<>>,
     low_brightness |-> <<Dark>>, very_low_brightness |-> <<>>,
     very_high_opacity |-> <<>>, high_opacity |-> <<>>,
     low_opacity |-> <<Faded>>, very_low_opacity |-> <<>>,
     very_high_temperature |-> <<>>, high_temperature |-> <<Warm>>,
     low_temperature |-> <<>>, very_low_temperature |-> <<>>]

En == <<"e", "n">>
\* the res/ directories tried: each has the language en only
ResourceInputs ==
    { (En :> [colors |-> Colors, object_colors |-> ObjectsOwnHex,
              color_descriptors |-> Descriptors]),
      (En :> [colors |-> Colors, object_colors |-> ObjectsColorHex,
              color_descriptors |-> Descriptors]),
      (En :> [colors |-> Colors, object_colors |-> ObjectsColorHex]) }

LangInputs == {<<"e", "n">>, <<"e", "n", "-", "U", "S">>, <<"z", "z">>}
DescriptionInputs ==
    { <<"h", "e", "l", "l", "o">>,
      <<"d", "a", "r", "k", " ", "d", "u", "s", "t", "y", " ", "r", "o", "s", "e">>,
      <<"D", "a", "r", "k", " ", "R", "o", "s", "e">>,
      <<"d", "a", "r", "k", " ", "b", "l", "u", "e">>,
      <<"b", "l", "u", "e", " ", "r", "o", "s", "e">>,
      <<"v", "i", "v", "i", "d", " ", "c", "e", "r", "i", "s", "e">>,
      <<"r", "u", "b", "y">>,
      <<"f", "a", "d", "e", "d", " ", "r", "o", "s", "e">>,
      <<"w", "a", "r", "m", " ", "b", "l", "u", "e">> }

WeightInputs == {<<1, 2>>, <<1, 1>>}
MaxPaletteDist == 1   \* largest distance the oracle answers in color_from_description

\* what the oracles can be asked in a call: the names fuzzy_match can be given
\* and the candidates colorspacious can be given, both those of the hex strings
\* of the color names occurring in the description
MatchedHexes(description, lang) ==
    IF ~IsFile(BaseLang(lang), "colors") THEN {}
    ELSE {it[1] : it \in {res[BaseLang(lang)].colors[i] :
                             i \in {j \in 1..Len(res[BaseLang(lang)].colors) :
                                       Contains(description,
                                                norm(res[BaseLang(lang)].colors[j][2]))}}}
NamesOf(d, hexes) == {d[i][2] : i \in {j \in 1..Len(d) : d[j][1] \in hexes}}
AskedNames(description, lang) ==
    NamesOf(load_color_json(NoCache, lang)[1], MatchedHexes(description, lang))
        \cup NamesOf(get_object_colors(lang), MatchedHexes(description, lang))
AskedTriples(description, lang) ==
    {Triple(HlsAsRgb(HlsFromHexStr(hex, PyNone, PyNone).value).value) :
        hex \in MatchedHexes(description, lang)}

Init ==
    /\ COLOR_DATA = NoCache
    /\ color_automatons = NoCache
    /\ object_automatons = NoCache
    /\ res \in ResourceInputs
    /\ op = "idle"
    /\ args = <<>>
    /\ ret = <<>>
    /\ events = NoEvents
    /\ threads = NoThreads

\* color_from_description(description, lang, cast_to_palette=cast_to_palette)
ColorFromDescription ==
    /\ op = "idle"
    /\ \E description \in DescriptionInputs, lang \in LangInputs, cast_to_palette \in BOOLEAN :
       \E fuzzy \in [AskedNames(description, lang) -> WeightInputs],
          dist \in IF cast_to_palette
                   THEN [AskedTriples(description, lang) -> 0..MaxPaletteDist] ELSE {<<>>},
          fl \in IF MatchedHexes(description, lang) = {} THEN {"exact"} ELSE FloatOutcomes :
            \E out \in {color_from_description(COLOR_DATA, color_automatons, description,
                                                lang, cast_to_palette, fuzzy, dist, fl)} :
                /\ op' = "color_from_description"
                /\ args' = [description |-> description, lang |-> lang,
                            cast_to_palette |-> cast_to_palette,
                            fuzzy |-> fuzzy, dist |-> dist, fl |-> fl]
                /\ ret' = out.ret
                /\ COLOR_DATA' = out.COLOR_DATA
                /\ color_automatons' = out.color_automatons
                /\ UNCHANGED <<object_automatons, res, events, threads>>

\* lookup_name(color, lang)
LookupName ==
    /\ op = "idle"
    /\ \E hex \in {RoseHex, RubyHex}, lang \in LangInputs :
        \E color \in {RgbFromHexStr(hex, PyNone, PyNone).value} :
        \E out \in {lookup_name(COLOR_DATA, color, lang)} :
            /\ op' = "lookup_name"
            /\ args' = [color |-> color, lang |-> lang]
            /\ ret' = out[1]
            /\ COLOR_DATA' = out[2]
            /\ UNCHANGED <<color_automatons, object_automatons, res, events, threads>>

Next ==
    \/ Return
    \/ ColorFromDescription
    \/ LookupName

Spec == Init /\ [][Next]_vars

----------------------------------------------------------------------------
(* Properties of the color layer, checked under SpecColors                 *)

OptDist(i) == args.dist[Triple(args.color_opts[i])]

\* C5: closest_color(color, candidates), for a non-empty candidate list, returns
\* a candidate whose distance to color is least over all candidates, and among
\* candidates of exactly that distance the one that comes first in input order.
C5_ClosestIsFirstMinimal ==
    (op = "closest_color" /\ args.color_opts # <<>>) =>
        /\ IsOk(ret)
        /\ \E i \in 1..Len(args.color_opts) :
              /\ ret.value = args.color_opts[i]
              /\ \A j \in 1..Len(args.color_opts) : OptDist(i) <= OptDist(j)
              /\ \A j \in 1..(i - 1) : OptDist(j) > OptDist(i)

\* two different candidates whose hashes collide tie at the least distance, and
\* the first of them is returned
C5_Witness ==
    /\ op = "closest_color"
    /\ IsOk(ret)
    /\ \E i, j \in 1..Len(args.color_opts) :
          /\ i < j
          /\ Triple(args.color_opts[i]) # Triple(args.color_opts[j])
          /\ Hash(args.color_opts[i]) = Hash(args.color_opts[j])
          /\ OptDist(i) = OptDist(j)
          /\ \A k \in 1..Len(args.color_opts) : OptDist(i) <= OptDist(k)
          /\ ret.value = args.color_opts[i]

InUnit(x) == 0 <= x[1] /\ x[1] <= x[2]
IntegerChannel(x) == x[2] = 1 /\ x[1] \in 0..255
ChannelsInDomain == IntegerChannel(args.r) /\ IntegerChannel(args.g) /\ IntegerChannel(args.b)
InByteRange(x) == 0 <= x[1] /\ x[1] <= 255 * x[2]
ChannelsInRange == InByteRange(args.r) /\ InByteRange(args.g) /\ InByteRange(args.b)

\* C6 as stated: construction fails with a range error if and only if some
\* component is outside its domain, r, g, b in 0..255, h in [0, 360) so that
\* h = 360 is rejected, and saturation, value and lightness in [0, 1].
C6_RangeErrorIffOutsideHalfOpen ==
    /\ op = "sRGBAColor" => (ret.status = "raise" <=> ~ChannelsInDomain)
    /\ op = "HSVColor" =>
          (ret.status = "raise" <=>
              ~(0 <= args.h /\ args.h < 360 /\ InUnit(args.s) /\ InUnit(args.v)))
    /\ op = "HLSColor" =>
          (ret.status = "raise" <=>
              ~(0 <= args.h /\ args.h < 360 /\ InUnit(args.s) /\ InUnit(args.l)))

\* C6 amended: construction fails with ValueError if and only if some component
\* is outside its range, r, g, b numbers in [0, 255] (whole or not), h in
\* [0, 360] with h = 360 accepted, and saturation, value and lightness in
\* [0, 1]; an accepted value is stored as given.
C6_RangeErrorIffOutsideClosed ==
    /\ op = "sRGBAColor" =>
          /\ ret.status = "raise" <=> ~ChannelsInRange
          /\ ret.status = "raise" => ret.exc = "ValueError"
          /\ IsOk(ret) => /\ ret.value.r = Num(args.r)
                          /\ ret.value.g = Num(args.g)
                          /\ ret.value.b = Num(args.b)
    /\ op = "HSVColor" =>
          /\ ret.status = "raise" <=>
                ~(0 <= args.h /\ args.h <= 360 /\ InUnit(args.s) /\ InUnit(args.v))
          /\ ret.status = "raise" => ret.exc = "ValueError"
          /\ IsOk(ret) => ret.value.h = args.h /\ ret.value.s = args.s /\ ret.value.v = args.v
    /\ op = "HLSColor" =>
          /\ ret.status = "raise" <=>
                ~(0 <= args.h /\ args.h <= 360 /\ InUnit(args.s) /\ InUnit(args.l))
          /\ ret.status = "raise" => ret.exc = "ValueError"
          /\ IsOk(ret) => ret.value.h = args.h /\ ret.value.s = args.s /\ ret.value.l = args.l

\* an HSVColor of hue 360 is constructed
C6_Witness == op = "HSVColor" /\ args.h = 360 /\ IsOk(ret) /\ ret.value.h = 360

ISCCNBSHues ==
    (0..5) \cup (7..14) \cup {28} \cup (62..104) \cup (113..143) \cup {190}
        \cup (226..247) \cup (249..250)

UpperHex == <<"0", "1", "2", "3", "4", "5", "6", "7", "8", "9",
              "A", "B", "C", "D", "E", "F">>
UpperHexVal(ch) == (CHOOSE i \in 1..16 : UpperHex[i] = ch) - 1
\* hex is "#" and the six upper-case hex digits of c's r, g and b
HexFormOf(hex, c) ==
    /\ Len(hex) = 7
    /\ hex[1] = "#"
    /\ \A i \in 2..7 : \E k \in 1..16 : UpperHex[k] = hex[i]
    /\ 16 * UpperHexVal(hex[2]) + UpperHexVal(hex[3]) = c.r.q[1]
    /\ 16 * UpperHexVal(hex[4]) + UpperHexVal(hex[5]) = c.g.q[1]
    /\ 16 * UpperHexVal(hex[6]) + UpperHexVal(hex[7]) = c.b.q[1]

\* C8 as stated: sRGBAColor.from_hex_str(c.hex_str) == c for every valid
\* sRGBAColor c, hex_str is "#" and six upper-case hex digits of (r, g, b), and
\* every spelling of the text (case, leading "#") parses to that same color.
C8_HexRoundTripEqual ==
    op = "from_hex_str" =>
        /\ HexFormOf(args.hex_str, args.color)
        /\ IsOk(ret)
        /\ RGBEq(ret.value, args.color)

\* C8 amended: for every valid sRGBAColor c, hex_str is "#" and six upper-case
\* hex digits of (r, g, b), and from_hex_str of any spelling of it (upper, lower
\* or mixed case, with or without "#") returns the color of c's r, g, b with
\* alpha 255 and no name or description: it is == c exactly when c has alpha
\* 255 and neither name nor description.
C8_HexRoundTripChannels ==
    op = "from_hex_str" =>
        /\ HexFormOf(args.hex_str, args.color)
        /\ IsOk(ret)
        /\ ret.value.r = args.color.r /\ ret.value.g = args.color.g
        /\ ret.value.b = args.color.b
        /\ ret.value.a = PyInt(255)
        /\ ret.value.name = PyNone /\ ret.value.description = PyNone
        /\ RGBEq(ret.value, args.color) <=>
              (args.color.a = PyInt(255) /\ args.color.name = PyNone)

\* a named color with a letter digit is parsed back from the lower-case text
\* without "#"
C8_Witness ==
    /\ op = "from_hex_str"
    /\ args.color.name # PyNone
    /\ args.color.b = PyInt(171)
    /\ args.text = Tail(Lower(args.hex_str))
    /\ args.text # Tail(args.hex_str)
    /\ IsOk(ret)
    /\ ret.value.b = PyInt(171)

Near(x, y) == x.q[2] = 1 /\ y.q[2] = 1 /\ x.q[1] - y.q[1] \in -1..1
NearRGB(x, y) == Near(x.r, y.r) /\ Near(x.g, y.g) /\ Near(x.b, y.b)

\* C9: for every valid sRGBAColor c, c.as_hsv.as_rgb and c.as_hls.as_rgb each
\* have r, g and b within 1 of c's r, g and b.
C9_RoundTripWithinOne ==
    op = "round_trip" =>
        /\ IsOk(ret.via_hsv) /\ NearRGB(ret.via_hsv.value, args.color)
        /\ IsOk(ret.via_hls) /\ NearRGB(ret.via_hls.value, args.color)

IntChannel(x) == x.int /\ x.q[2] = 1 /\ x.q[1] \in 0..255

\* C10: convert_K_to_RGB(k) fails with a range error if and only if k < 1000 or
\* k > 40000; for every k in [1000, 40000] it returns a color whose r, g and b
\* are integers in [0, 255], with red = 255 for k <= 6600, blue = 0 for
\* k <= 1900 and blue = 255 for k >= 6600.
C10_KelvinIntegerChannels ==
    op = "convert_K_to_RGB" =>
        LET k == args.colour_temperature IN
        /\ ret.status = "raise" <=> (k < 1000 \/ k > 40000)
        /\ IsOk(ret) =>
              /\ IntChannel(ret.value.r) /\ IntChannel(ret.value.g) /\ IntChannel(ret.value.b)
              /\ k <= 6600 => ret.value.r = PyInt(255)
              /\ k <= 1900 => ret.value.b = PyInt(0)
              /\ k >= 6600 => ret.value.b = PyInt(255)

\* C11: average_colors returns a hue in [0, 360), the weighted circular mean of
\* the input hues: two colors of hue 350 and 10 with equal weight average to a
\* hue within 1 degree of 0 on the hue circle (359, 0 or 1), never 180.
C11_CircularMeanInHalfOpenRange ==
    op = "average_colors" =>
        /\ IsOk(ret)
        /\ ret.value.h \in 0..359
        /\ ( /\ Len(args.hues) = 2
             /\ {args.hues[1], args.hues[2]} = {350, 10}
             /\ args.weights[1] = args.weights[2] ) => ret.value.h \in {359, 0, 1}

\* the first of the tiers ts in the order very-high (1), high, low, very-low (4)
LeastTier(ts) ==
    IF ts = <<>> THEN 0
    ELSE CHOOSE t \in {ts[i] : i \in 1..Len(ts)} : \A i \in 1..Len(ts) : t <= ts[i]
\* +0.2, +0.1, -0.1, -0.2 in twentieths
TierDelta(t) == CASE t = 1 -> 4 [] t = 2 -> 2 [] t = 3 -> -2 [] t = 4 -> -4 [] OTHER -> 0
\* x + delta twentieths, clamped to [0, 1]
MovedBy(x, delta) ==
    LET n == 20 * x[1] + delta * x[2]
        d == 20 * x[2]
    IN  IF n < 0 THEN Q(0, 1) ELSE IF n > d THEN Q(1, 1) ELSE Q(n, d)

\* C13: in _adjust_color_attributes, on each of the saturation and brightness
\* axes the tiers are tested in the order very-high, high, low, very-low and
\* only the first tier with a keyword in the description is applied (+0.2, +0.1,
\* -0.1, -0.2), clamped to [0, 1]: a description with keywords of several tiers
\* of an axis gets one delta on it, whatever tiers the other axes matched.
C13_FirstTierPerAxis ==
    op = "adjust_color_attributes" =>
        /\ ret.color.s = MovedBy(args.color.s, TierDelta(LeastTier(args.sat)))
        /\ ret.color.l = MovedBy(args.color.l, TierDelta(LeastTier(args.bri)))
        /\ ret.color.h = args.color.h
        /\ IsOk(ret.result) =>
              \E rgb \in {HlsAsRgb(ret.color)} :
                  /\ IsOk(rgb)
                  /\ args.tem = <<>> => Triple(ret.result.value) = Triple(rgb.value)

\* the description names the tiers very-low, low and very-high of saturation
\* and very-low and high of brightness: saturation 0.95 is raised to 1 and
\* lightness 0.5 to 0.6
C13_Witness ==
    /\ op = "adjust_color_attributes"
    /\ args.sat = <<4, 3, 1>>
    /\ args.bri = <<4, 2>>
    /\ args.color.s = <<19, 20>>
    /\ args.color.l = <<1, 2>>
    /\ ret.color.s = <<1, 1>>
    /\ ret.color.l = <<3, 5>>
    /\ IsOk(ret.result)

\* the RGB color the temperature step of the call started from
BeforeTint == HlsAsRgb(ret.color).value
InChannelRange(x) == QLe(QI(0), x.q) /\ QLe(x.q, QI(255))

\* C14: the temperature step of _adjust_color_attributes never lowers red for a
\* warm tier (very-high, high) nor blue for a cool tier (low, very-low), a warm
\* tier never raises blue, every channel of the returned color stays in
\* [0, 255], and the channels no tier touches are unchanged.
C14_TemperatureKeepsDirection ==
    (op = "adjust_color_attributes" /\ IsOk(ret.result)) =>
        \E tier \in {LeastTier(args.tem)}, before \in {BeforeTint},
           after \in {ret.result.value} :
            /\ tier \in {1, 2} => /\ QLe(before.r.q, after.r.q)
                                  /\ QLe(after.b.q, before.b.q)
            /\ tier \in {3, 4} => /\ QLe(before.b.q, after.b.q)
                                  /\ NumEq(after.r, before.r)
            /\ tier = 0 => /\ NumEq(after.r, before.r)
                           /\ NumEq(after.b, before.b)
            /\ NumEq(after.g, before.g)
            /\ InChannelRange(after.r) /\ InChannelRange(after.g)
            /\ InChannelRange(after.b)

\* 1.5, 1.2, 0.7, 0.5 in tenths
OpacityFactor(t) == CASE t = 1 -> 15 [] t = 2 -> 12 [] t = 3 -> 7 [] t = 4 -> 5 [] OTHER -> 10
\* alpha a times the factor of tier t, clamped into 0..255
ScaledAlpha(a, t) == QMin(QI(255), QMul(a, Q(OpacityFactor(t), 10)))

\* C15: when the description holds a keyword of an opacity tier,
\* _adjust_color_attributes completes without raising and the alpha of the
\* color it returns is the base color's alpha times the tier's factor (1.5,
\* 1.2, 0.7, 0.5), clamped into the alpha domain.
C15_OpacityScalesAlpha ==
    (op = "adjust_color_attributes" /\ args.opa # <<>>) =>
        /\ IsOk(ret.result)
        /\ QEq(ret.result.value.a.q, ScaledAlpha(DefaultAlpha.q, LeastTier(args.opa)))

\* the entries of the palette of the call whose wavelength range holds the
\* wavelength of the call, and those whose hue range holds its hue
HoldingWavelen ==
    {i \in 1..Len(args.palette) :
        /\ NmLe(args.palette[i].wavelen_nm_min, args.wavelen)
        /\ NmLe(args.wavelen, args.palette[i].wavelen_nm_max)}
HoldingHue ==
    {i \in 1..Len(args.palette) :
        /\ args.palette[i].hue_approximation.min_hue_approximation <= args.hue
        /\ args.hue <= args.palette[i].hue_approximation.max_hue_approximation}
Least(S) == CHOOSE i \in S : \A j \in S : i <= j
\* lo + (x - a) / (b - a) * (hi - lo), cut to a whole number
Interpolated(x, a, b, lo, hi) == lo + ((x - a) * (hi - lo)) \div (b - a)

\* C16: SpectralColor._wavelength_to_hue(w, palette) returns the hue of the first
\* entry whose wavelength range holds w, the entry's single hue when it is
\* degenerate and else the hue interpolated linearly between the entry's min
\* and max hue, and raises ValueError if and only if no entry holds w (so the
\* lowest min and the highest max resolve, one unit outside fails);
\* HueRange._hue_to_wavelength obeys the same rule over hue ranges.
C16_FirstEntryInterpolated ==
    /\ op = "wavelength_to_hue" =>
          /\ (ret.status = "raise" /\ ret.exc = "ValueError") <=> HoldingWavelen = {}
          /\ HoldingWavelen # {} =>
                /\ IsOk(ret)
                /\ \E t \in {args.palette[Least(HoldingWavelen)]} :
                   \E hr \in {t.hue_approximation} :
                      IF hr.min_hue_approximation = hr.max_hue_approximation
                      THEN ret.value = hr.min_hue_approximation
                      ELSE IF t.wavelen_nm_min = t.wavelen_nm_max
                      THEN ret.value \in hr.min_hue_approximation..hr.max_hue_approximation
                      ELSE ret.value =
                             Interpolated(NmInt(args.wavelen), NmInt(t.wavelen_nm_min),
                                          NmInt(t.wavelen_nm_max),
                                          hr.min_hue_approximation, hr.max_hue_approximation)
    /\ op = "hue_to_wavelength" =>
          /\ (ret.status = "raise" /\ ret.exc = "ValueError") <=> HoldingHue = {}
          /\ HoldingHue # {} =>
                /\ IsOk(ret)
                /\ \E t \in {args.palette[Least(HoldingHue)]} :
                   \E hr \in {t.hue_approximation} :
                      IF hr.min_hue_approximation = hr.max_hue_approximation
                      THEN ret.value = t.wavelen_nm_min
                      ELSE ret.value =
                             Interpolated(args.hue, hr.min_hue_approximation,
                                          hr.max_hue_approximation,
                                          t.wavelen_nm_min, t.wavelen_nm_max)

\* C17: every built-in spectral palette is a sequence of (wavelength range, hue
\* range, name) entries in ascending order of wavelength, with min <= max in
\* each entry and no two entries with overlapping wavelength ranges.
C17_PalettesAscendingDisjoint ==
    op = "wavelength_to_hue" =>
        /\ \A i \in 1..Len(args.palette) :
              /\ HasHue(args.palette[i])
              /\ args.palette[i].name # PyNone
              /\ NmLe(args.palette[i].wavelen_nm_min, args.palette[i].wavelen_nm_max)
        /\ \A i, j \in 1..Len(args.palette) :
              i < j => NmCmp(args.palette[i].wavelen_nm_max,
                             args.palette[j].wavelen_nm_min) < 0

----------------------------------------------------------------------------
(* Properties of color_from_description, checked under Spec                *)

\* the dictionaries of the language of the call
LangColors == load_color_json(NoCache, args.lang)[1]
LangObjects == get_object_colors(args.lang)
LangAdjectives == get_color_adjectives(args.lang)

\* no color name and no object name of the language occurs in the description
NoEntryOccurs ==
    /\ \A i \in 1..Len(LangColors) : ~Contains(args.description, norm(LangColors[i][2]))
    /\ \A i \in 1..Len(LangObjects) : ~Contains(args.description, norm(LangObjects[i][2]))

\* C1: color_from_description returns None, without raising, for every
\* description and language in which no color name and no object name of the
\* dictionaries occurs in the description; it never returns a color then.
C1_NoMatchReturnsNone ==
    (op = "color_from_description" /\ NoEntryOccurs) =>
        (IsOk(ret) /\ ret.value = NoColor)

\* the buckets with a keyword occurring in the description
BucketsIn(description) ==
    {b \in DOMAIN LangAdjectives : AnyWordIn(Lower(description), LangAdjectives[b])}

\* C2: for a description with exactly one dictionary color name and a keyword
\* of the low_brightness bucket and of no other bucket, color_from_description
\* without snapping returns a color, not an error, whose hue is the hue of the
\* matched color and whose lightness is strictly lower than the matched color's.
C2_DarkKeepsHueLowersLightness ==
    ( /\ op = "color_from_description"
      /\ ~args.cast_to_palette
      /\ Cardinality(MatchedHexes(args.description, args.lang)) = 1
      /\ Cardinality({i \in 1..Len(LangColors) :
                         Contains(args.description, norm(LangColors[i][2]))}) = 1
      /\ BucketsIn(args.description) = {"low_brightness"} ) =>
        /\ IsOk(ret)
        /\ IsRGB(ret.value)
        /\ HasIntChannels(ret.value)
        /\ \A hex \in MatchedHexes(args.description, args.lang) :
              /\ RgbAsHls(ret.value).value.h = HlsFromHexStr(hex, PyNone, PyNone).value.h
              /\ QLt(RgbAsHls(ret.value).value.l, HlsFromHexStr(hex, PyNone, PyNone).value.l)

\* C3: with cast_to_palette set and at least one candidate matched, the color
\* color_from_description returns is one of the matched candidates: its r, g, b
\* are those of the dictionary hex of a matched name, and no candidate is nearer
\* to the fused, adjusted color by color_distance.
C3_SnapReturnsNearestCandidate ==
    ( /\ op = "color_from_description"
      /\ args.cast_to_palette
      /\ MatchedHexes(args.description, args.lang) # {} ) =>
        /\ IsOk(ret)
        /\ IsRGB(ret.value)
        /\ \E hex \in MatchedHexes(args.description, args.lang) :
              Triple(ret.value) = Triple(RgbFromHexStr(hex, PyNone, PyNone).value)
        /\ Triple(ret.value) \in DOMAIN args.dist
        /\ \A t \in DOMAIN args.dist : args.dist[Triple(ret.value)] <= args.dist[t]

\* C4: every color color_from_description returns, with or without
\* cast_to_palette, has the title-cased description as its name and the
\* description itself as its description.
C4_NameIsTitledDescription ==
    (op = "color_from_description" /\ IsOk(ret) /\ IsRGB(ret.value)) =>
        /\ ret.value.name = Title(args.description)
        /\ ret.value.description = args.description

\* the names of dictionary d that occur in the description of the call
NamesOccurring(d) ==
    {d[i][2] : i \in {j \in 1..Len(d) : Contains(args.description, norm(d[j][2]))}}

\* the candidates steps 1 and 2 of the call collect
CandidatesOfCall ==
    Match(load_color_automaton(NoCache, NoCache, args.lang)[1], LangColors,
          args.description, args.lang, args.fuzzy)

\* C12: in color_from_description the candidates are the matches of the color
\* names over the color dictionary followed by the matches of the object names
\* over the object dictionary: every object name occurring in the description
\* yields a candidate, color-name matches are not collected twice, and a color
\* name absent from the object dictionary does not make the call fail.
C12_CandidatesAreColorThenObjectMatches ==
    ( /\ op = "color_from_description"
      /\ IsFile(BaseLang(args.lang), "colors") ) =>
        /\ IsOk(CandidatesOfCall)
        /\ Len(CandidatesOfCall.value[1]) =
              Cardinality(NamesOccurring(LangColors))
                  + Cardinality(NamesOccurring(LangObjects))
        /\ {CandidatesOfCall.value[1][i].name : i \in 1..Len(CandidatesOfCall.value[1])} =
              NamesOccurring(LangColors) \cup NamesOccurring(LangObjects)
        /\ (NamesOccurring(LangObjects) # {} /\ IsOk(ret)) => IsRGB(ret.value)


----------------------------------------------------------------------------
(* The files a call opens and the matchers it builds.  events counts them  *)
(* per language, a language being the base subtag that the loaders make    *)
(* of a code: <<"read", file, language>> is an open of a resource file and *)
(* <<"build", matcher, language>> an ahocorasick.Automaton() filled for    *)
(* that language.  SpecCache and SpecThreads keep the count; Spec and      *)
(* SpecColors leave it alone.                                              *)

MaxEvents == 2   \* calls go on while no event was counted more often

\* events with n more of the event e
Tally(ev, e, n) ==
    IF n = 0 THEN ev ELSE Store(ev, e, n + (IF e \in DOMAIN ev THEN ev[e] ELSE 0))

ReadOf(file, lang) == <<"read", file, BaseLang(lang)>>
BuildOf(matcher, lang) == <<"build", matcher, BaseLang(lang)>>

\* how often _load_color_json(lang) opens colors.json with _COLOR_DATA = data_cache
ColorsOpened(data_cache, lang) ==
    IF BaseLang(lang) \in DOMAIN data_cache /\ data_cache[BaseLang(lang)] # <<>> THEN 0
    ELSE IF IsFile(BaseLang(lang), "colors") THEN 1 ELSE 0

\* how often _get_object_colors(lang) and _get_color_adjectives(lang) open their file
ObjectsOpened(lang) == IF IsFile(BaseLang(lang), "object_colors") THEN 1 ELSE 0
DescriptorsOpened(lang) == IF IsFile(BaseLang(lang), "color_descriptors") THEN 1 ELSE 0

\* whether color_from_description gets to step 2, past the loop of step 1
ReachesStep2(A, color_dict, description, fuzzy) ==
    One({ IsOk(it) /\ IsOk(Collect(it.value, color_dict, fuzzy))
          : it \in {iter(A, description)} })

\* whether color_from_description gets to step 4, with an average of candidates
ReachesStep4(A, color_dict, description, lang, fuzzy, fl) ==
    One({ /\ IsOk(m)
          /\ m.value[1] # <<>>
          /\ IsOk(average_colors(m.value[1], m.value[2], fl))
          : m \in {Match(A, color_dict, description, lang, fuzzy)} })

\* events after lookup_name(color, lang) on an sRGBAColor
lookup_name_events(ev, data_cache, lang) ==
    Tally(ev, ReadOf("colors", lang), ColorsOpened(data_cache, lang))

\* events after color_from_description(description, lang): colors.json is
\* opened by _load_color_json in step 1 and again by the one in
\* _load_color_automaton when there is no automaton for lang
color_from_description_events(ev, data_cache, automatons, description, lang, fuzzy, fl) ==
    One({ One({
        Tally(Tally(Tally(Tally(ev,
            ReadOf("colors", lang),
                ColorsOpened(data_cache, lang)
                    + (IF lang \in DOMAIN automatons THEN 0 ELSE ColorsOpened(ld[2], lang))),
            BuildOf("color", lang),
                IF lang \in DOMAIN automatons THEN 0 ELSE 1),
            ReadOf("object_colors", lang),
                IF ReachesStep2(la[1], ld[1], description, fuzzy)
                THEN ObjectsOpened(lang) ELSE 0),
            ReadOf("color_descriptors", lang),
                IF ReachesStep4(la[1], ld[1], description, lang, fuzzy, fl)
                THEN DescriptorsOpened(lang) ELSE 0)
        : la \in {load_color_automaton(automatons, ld[2], lang)} })
        : ld \in {load_color_json(data_cache, lang)} })

\* the res/ directories tried: en with its three files, and en with a
\* colors.json that holds the empty dict
CacheResourceInputs ==
    { (En :> [colors |-> Colors, object_colors |-> ObjectsColorHex,
              color_descriptors |-> Descriptors]),
      (En :> [colors |-> <<>>, object_colors |-> ObjectsColorHex,
              color_descriptors |-> Descriptors]) }

CacheLangInputs == {<<"e", "n">>, <<"e", "n", "-", "U", "S">>, <<"E", "N">>, <<"z", "z">>}
CacheDescriptionInputs ==
    {<<"h", "e", "l", "l", "o">>, <<"d", "a", "r", "k", " ", "b", "l", "u", "e">>}

InitCache ==
    /\ COLOR_DATA = NoCache
    /\ color_automatons = NoCache
    /\ object_automatons = NoCache
    /\ res \in CacheResourceInputs
    /\ op = "idle"
    /\ args = <<>>
    /\ ret = <<>>
    /\ events = NoEvents
    /\ threads = NoThreads

\* color_from_description(description, lang), counting what it opens and builds
ColorFromDescriptionCounted ==
    /\ op = "idle"
    /\ \E description \in CacheDescriptionInputs, lang \in CacheLangInputs :
       \E fuzzy \in [AskedNames(description, lang) -> {<<1, 1>>}] :
       \E out \in {color_from_description(COLOR_DATA, color_automatons, description,
                                           lang, FALSE, fuzzy, <<>>, "exact")},
          ev \in {color_from_description_events(events, COLOR_DATA, color_automatons,
                                                description, lang, fuzzy, "exact")} :
            /\ \A e \in DOMAIN ev : ev[e] <= MaxEvents
            /\ op' = "color_from_description"
            /\ args' = [description |-> description, lang |-> lang,
                        cast_to_palette |-> FALSE,
                        fuzzy |-> fuzzy, dist |-> <<>>, fl |-> "exact"]
            /\ ret' = out.ret
            /\ COLOR_DATA' = out.COLOR_DATA
            /\ color_automatons' = out.color_automatons
            /\ events' = ev
            /\ UNCHANGED <<object_automatons, res, threads>>

\* lookup_name(color, lang), counting what it opens
LookupNameCounted ==
    /\ op = "idle"
    /\ \E hex \in {RoseHex, RubyHex}, lang \in CacheLangInputs :
        \E color \in {RgbFromHexStr(hex, PyNone, PyNone).value} :
        \E out \in {lookup_name(COLOR_DATA, color, lang)},
           ev \in {lookup_name_events(events, COLOR_DATA, lang)} :
            /\ \A e \in DOMAIN ev : ev[e] <= MaxEvents
            /\ op' = "lookup_name"
            /\ args' = [color |-> color, lang |-> lang]
            /\ ret' = out[1]
            /\ COLOR_DATA' = out[2]
            /\ events' = ev
            /\ UNCHANGED <<color_automatons, object_automatons, res, threads>>

NextCache ==
    \/ Return
    \/ ColorFromDescriptionCounted
    \/ LookupNameCounted

SpecCache == InitCache /\ [][NextCache]_vars

\* C19: over any sequence of color_from_description and lookup_name calls of one
\* process, for each language (codes with the same base subtag, as "en", "en-US"
\* and "EN", being one language) each resource file is read at most once and
\* each matcher is built at most once, also when the file is missing or empty
C19_EachResourceLoadedOnce == \A e \in DOMAIN events : events[e] <= 1


----------------------------------------------------------------------------
(* The loaders under threads.  Nothing in the module takes a lock, so the  *)
(* statements of the loaders interleave: each thread makes one first-use   *)
(* call of a loader for the language en, and a step of a thread is one     *)
(* statement of the loader it is in.  A frame holds the locals of the      *)
(* call: automaton, the dict under iteration (items), data, and the value  *)
(* returned (result).                                                      *)

MaxThreads == 2
Threads == 1..MaxThreads

LoaderNames == {"_load_color_json", "_load_color_automaton", "_load_object_automaton"}

IdleFrame ==
    [fn |-> "", lang |-> <<>>, pc |-> "idle", automaton |-> Automaton,
     items |-> <<>>, data |-> <<>>, result |-> <<>>]

ThreadResources ==
    (En :> [colors |-> Colors, object_colors |-> ObjectsColorHex,
            color_descriptors |-> Descriptors])

InitThreads ==
    /\ COLOR_DATA = NoCache
    /\ color_automatons = NoCache
    /\ object_automatons = NoCache
    /\ res = ThreadResources
    /\ op = "idle"
    /\ args = <<>>
    /\ ret = <<>>
    /\ events = NoEvents
    /\ threads = [t \in Threads |-> IdleFrame]

Calls == <<op, args, ret, res>>

\* a thread calls a loader
CallLoader ==
    \E t \in Threads, fn \in LoaderNames :
        /\ threads[t].pc = "idle"
        /\ threads' = [threads EXCEPT ![t] =
                          [IdleFrame EXCEPT !.fn = fn, !.lang = En,
                               !.pc = IF fn = "_load_color_json" THEN "get" ELSE "check"]]
        /\ UNCHANGED <<COLOR_DATA, color_automatons, object_automatons, events, Calls>>

\* if lang in _color_automatons: return _color_automatons[lang], and the same
\* on _object_automatons
CheckCache ==
    \E t \in Threads :
        /\ threads[t].pc = "check"
        /\ \E cache \in {IF threads[t].fn = "_load_color_automaton"
                         THEN color_automatons ELSE object_automatons} :
            threads' = [threads EXCEPT ![t] =
                IF threads[t].lang \in DOMAIN cache
                THEN [@ EXCEPT !.result = cache[threads[t].lang], !.pc = "done"]
                ELSE [@ EXCEPT !.pc = "new"]]
        /\ UNCHANGED <<COLOR_DATA, color_automatons, object_automatons, events, Calls>>

\* automaton = ahocorasick.Automaton()
NewAutomaton ==
    \E t \in Threads :
        /\ threads[t].pc = "new"
        /\ threads' = [threads EXCEPT ![t] =
              [@ EXCEPT !.automaton = Automaton,
                        !.pc = IF threads[t].fn = "_load_color_automaton"
                               THEN "get" ELSE "objects"]]
        /\ events' = Tally(events,
                           BuildOf(IF threads[t].fn = "_load_color_automaton"
                                   THEN "color" ELSE "object", threads[t].lang), 1)
        /\ UNCHANGED <<COLOR_DATA, color_automatons, object_automatons, Calls>>

\* data = _COLOR_DATA.get(lang, {}) and the test of `if not data`
JsonGet ==
    \E t \in Threads :
        /\ threads[t].pc = "get"
        /\ \E data \in {IF BaseLang(threads[t].lang) \in DOMAIN COLOR_DATA
                        THEN COLOR_DATA[BaseLang(threads[t].lang)] ELSE <<>>} :
            threads' = [threads EXCEPT ![t] =
                [@ EXCEPT !.data = data,
                          !.pc = IF data # <<>> THEN "json_return" ELSE "read"]]
        /\ UNCHANGED <<COLOR_DATA, color_automatons, object_automatons, events, Calls>>

\* the body of `if not data`: _COLOR_DATA[lang] = data = json.load(f) if the
\* file is there
JsonRead ==
    \E t \in Threads :
        /\ threads[t].pc = "read"
        /\ \E out \in {load_color_json(NoCache, threads[t].lang)} :
            /\ threads' = [threads EXCEPT ![t] =
                              [@ EXCEPT !.data = out[1], !.pc = "json_return"]]
            /\ COLOR_DATA' = IF IsFile(BaseLang(threads[t].lang), "colors")
                             THEN Store(COLOR_DATA, BaseLang(threads[t].lang), out[1])
                             ELSE COLOR_DATA
        /\ events' = Tally(events, ReadOf("colors", threads[t].lang),
                           ColorsOpened(NoCache, threads[t].lang))
        /\ UNCHANGED <<color_automatons, object_automatons, Calls>>

\* return data: to the caller of _load_color_json, or to the loop of
\* _load_color_automaton
JsonReturn ==
    \E t \in Threads :
        /\ threads[t].pc = "json_return"
        /\ threads' = [threads EXCEPT ![t] =
              IF threads[t].fn = "_load_color_json"
              THEN [@ EXCEPT !.result = threads[t].data, !.pc = "done"]
              ELSE [@ EXCEPT !.items = threads[t].data, !.pc = "add"]]
        /\ UNCHANGED <<COLOR_DATA, color_automatons, object_automatons, events, Calls>>

\* _get_object_colors(lang).items() of _load_object_automaton
GetObjects ==
    \E t \in Threads :
        /\ threads[t].pc = "objects"
        /\ threads' = [threads EXCEPT ![t] =
              [@ EXCEPT !.items = get_object_colors(threads[t].lang), !.pc = "add"]]
        /\ events' = Tally(events, ReadOf("object_colors", threads[t].lang),
                           ObjectsOpened(threads[t].lang))
        /\ UNCHANGED <<COLOR_DATA, color_automatons, object_automatons, Calls>>

\* automaton.add_word(_norm(name), hex_str) for the next item
AddWord ==
    \E t \in Threads :
        /\ threads[t].pc = "add"
        /\ threads[t].items # <<>>
        /\ threads' = [threads EXCEPT ![t] =
              [@ EXCEPT !.automaton = add_word(threads[t].automaton,
                                               norm(threads[t].items[1][2]),
                                               threads[t].items[1][1]),
                        !.items = Tail(threads[t].items)]]
        /\ UNCHANGED <<COLOR_DATA, color_automatons, object_automatons, events, Calls>>

\* automaton.make_automaton(), after the last item
MakeAutomaton ==
    \E t \in Threads :
        /\ threads[t].pc = "add"
        /\ threads[t].items = <<>>
        /\ threads' = [threads EXCEPT ![t] =
              [@ EXCEPT !.automaton = make_automaton(threads[t].automaton),
                        !.pc = "store"]]
        /\ UNCHANGED <<COLOR_DATA, color_automatons, object_automatons, events, Calls>>

\* _color_automatons[lang] = automaton, or the same on _object_automatons
StoreAutomaton ==
    \E t \in Threads :
        /\ threads[t].pc = "store"
        /\ threads' = [threads EXCEPT ![t] = [@ EXCEPT !.pc = "return"]]
        /\ IF threads[t].fn = "_load_color_automaton"
           THEN /\ color_automatons' =
                      Store(color_automatons, threads[t].lang, threads[t].automaton)
                /\ UNCHANGED object_automatons
           ELSE /\ object_automatons' =
                      Store(object_automatons, threads[t].lang, threads[t].automaton)
                /\ UNCHANGED color_automatons
        /\ UNCHANGED <<COLOR_DATA, events, Calls>>

\* return automaton
ReturnAutomaton ==
    \E t \in Threads :
        /\ threads[t].pc = "return"
        /\ threads' = [threads EXCEPT ![t] =
              [@ EXCEPT !.result = threads[t].automaton, !.pc = "done"]]
        /\ UNCHANGED <<COLOR_DATA, color_automatons, object_automatons, events, Calls>>

NextThreads ==
    \/ CallLoader
    \/ CheckCache
    \/ NewAutomaton
    \/ JsonGet
    \/ JsonRead
    \/ JsonReturn
    \/ GetObjects
    \/ AddWord
    \/ MakeAutomaton
    \/ StoreAutomaton
    \/ ReturnAutomaton

SpecThreads == InitThreads /\ [][NextThreads]_vars

\* the dictionary a loader fills its matcher from
SourceOf(fn) == IF fn = "_load_color_automaton" THEN Colors ELSE ObjectsColorHex

\* a thread has been handed the matcher A of loader fn with all its words in
\* it and ready for iter
Complete(A, fn) ==
    /\ A.kind = "AHOCORASICK"
    /\ \A i \in 1..Len(SourceOf(fn)) : HasKey(A.words, norm(SourceOf(fn)[i][2]))

\* what a thread obtains, and what the caches hold, is never a matcher still
\* being filled
NeverTorn ==
    /\ \A t \in DOMAIN threads :
          (threads[t].pc = "done" /\ threads[t].fn # "_load_color_json") =>
              Complete(threads[t].result, threads[t].fn)
    /\ \A l \in DOMAIN color_automatons :
          Complete(color_automatons[l], "_load_color_automaton")
    /\ \A l \in DOMAIN object_automatons :
          Complete(object_automatons[l], "_load_object_automaton")

\* C18: under any interleaving of concurrent first-use calls from several
\* threads for one language, the matcher of _load_color_automaton, the matcher
\* of _load_object_automaton and the dictionary of _load_color_json are each
\* built at most once, and no thread obtains a matcher that is still being
\* filled.
C18_BuiltOnceNeverTorn ==
    /\ \A e \in DOMAIN events : events[e] <= 1
    /\ NeverTorn

====
